---- MODULE Spec2Model ----
\* A model of glmpy's NML configuration writer (src/glmpy/nml.py), of the
\* JSON front end that populates it (src/glmpy/json.py), and of the objects
\* of src/glmpy/dimensions.py, inflows.py, outflows.py and simulation.py.
\*
\* Text is modelled as a sequence of tokens.  A token is either a piece of a
\* source literal (a parameter name, a block name, one punctuation character)
\* or one character of a value.  "   x = " is << " ", " ", " ", "x", " ", "=", " " >>.
EXTENDS Integers, Sequences, FiniteSets, TLC

VARIABLES
  cls,      \* the class of the block under construction, e.g. "NMLSetup"
  keys,     \* the attribute names the caller's mappings mention in this run
  attrs,    \* the block's __dict__: attribute name -> value
  everSet,  \* names passed to the constructor or to set_attributes so far
  doc,      \* the NML document: NoDoc, or slot name -> slot reference
  supplied, \* the slot names in the order the caller wrote the keyword arguments
  file,     \* the content of the destination file: NoFile or a text
  handles,  \* number of file handles opened by write_nml and not yet closed
  disk,     \* the directories and files simulation.py works on: path -> entry
  last      \* the operation performed last and how it ended

vars == << cls, keys, attrs, everSet, doc, supplied, file, handles, disk, last >>

----------------------------------------------------------------------------
\* Python values

None == [t |-> "none"]
BoolV(b) == [t |-> "bool", b |-> b]
IntV(n) == [t |-> "int", n |-> n]
\* a float with one fractional digit, held in tenths: FloatV(-105) is -10.5
FloatV(n) == [t |-> "float", tenths |-> n]
\* a str, as the sequence of its characters
StrV(s) == [t |-> "str", s |-> s]
ListV(l) == [t |-> "list", l |-> l]

RECURSIVE Flatten(_)
Flatten(ss) == IF ss = << >> THEN << >> ELSE Head(ss) \o Flatten(Tail(ss))

RECURSIVE Reverse(_)
Reverse(s) == IF s = << >> THEN << >> ELSE Reverse(Tail(s)) \o << Head(s) >>

RECURSIVE Join(_, _)
\* sep.join(parts)
Join(sep, parts) ==
  IF parts = << >> THEN << >>
  ELSE IF Len(parts) = 1 THEN parts[1]
  ELSE parts[1] \o sep \o Join(sep, Tail(parts))

Digit(d) == << "0", "1", "2", "3", "4", "5", "6", "7", "8", "9" >>[d + 1]

RECURSIVE NatStr(_)
NatStr(n) == IF n < 10 THEN << Digit(n) >> ELSE NatStr(n \div 10) \o << Digit(n % 10) >>

\* str(int)
IntStr(n) == IF n < 0 THEN << "-" >> \o NatStr(-n) ELSE NatStr(n)

\* str(float), for a float with one fractional digit
FloatStr(n) ==
  IF n < 0 THEN << "-" >> \o NatStr((-n) \div 10) \o << ".", Digit((-n) % 10) >>
  ELSE NatStr(n \div 10) \o << ".", Digit(n % 10) >>

Has(s, c) == \E i \in 1..Len(s) : s[i] = c

RECURSIVE Escape(_)
Escape(s) ==
  IF s = << >> THEN << >>
  ELSE (IF Head(s) = "'" THEN << "\\", "'" >> ELSE << Head(s) >>) \o Escape(Tail(s))

\* repr(str): single quotes, unless the string holds an apostrophe and no
\* double quote
StrRepr(s) ==
  IF Has(s, "'") /\ ~Has(s, "\"")
  THEN << "\"" >> \o s \o << "\"" >>
  ELSE << "'" >> \o Escape(s) \o << "'" >>

RECURSIVE PyRepr(_)
RECURSIVE PyReprAll(_)
\* repr(v); str(v) differs from it only for a str
PyRepr(v) ==
  CASE v.t = "none" -> << "N", "o", "n", "e" >>
    [] v.t = "bool" -> IF v.b THEN << "T", "r", "u", "e" >> ELSE << "F", "a", "l", "s", "e" >>
    [] v.t = "int" -> IntStr(v.n)
    [] v.t = "float" -> FloatStr(v.tenths)
    [] v.t = "str" -> StrRepr(v.s)
    [] v.t = "list" -> << "[" >> \o Join(<< ",", " " >>, PyReprAll(v.l)) \o << "]" >>
PyReprAll(l) == IF l = << >> THEN << >> ELSE << PyRepr(Head(l)) >> \o PyReprAll(Tail(l))

\* str(v), also what an f-string field {v} formats to
PyStr(v) == IF v.t = "str" THEN v.s ELSE PyRepr(v)

\* a test for None in place of the truth value
IsNotNone(v) == v.t # "none"

\* bool(v), the truth value an `if v` tests
Truthy(v) ==
  CASE v.t = "none" -> FALSE
    [] v.t = "bool" -> v.b
    [] v.t = "int" -> v.n # 0
    [] v.t = "float" -> v.tenths # 0
    [] v.t = "str" -> v.s # << >>
    [] v.t = "list" -> v.l # << >>

\* whether `for item in v` is defined
Iterable(v) == v.t \in {"list", "str"}

\* the items `for item in v` visits
Items(v) == IF v.t = "list" THEN v.l ELSE [i \in 1..Len(v.s) |-> StrV(<< v.s[i] >>)]

----------------------------------------------------------------------------
\* NMLBase

FortranTrue == StrV(<< ".", "t", "r", "u", "e", "." >>)
FortranFalse == StrV(<< ".", "f", "a", "l", "s", "e", "." >>)

\* a conversion by truth value in place of the identity tests
fortran_bool_item_truthy(item) ==
  IF item.t # "none" /\ item # BoolV(FALSE) THEN FortranTrue ELSE FortranFalse

\* the branches on one item of fortran_bool_string
fortran_bool_item(item) ==
  IF item = BoolV(TRUE) THEN FortranTrue
  ELSE IF item = BoolV(FALSE) THEN FortranFalse
  ELSE None

\* NMLBase.fortran_bool_string
fortran_bool_string(bool_input) ==
  IF bool_input.t = "list"
  THEN ListV([i \in 1..Len(bool_input.l) |-> fortran_bool_item(bool_input.l[i])])
  ELSE fortran_bool_item(bool_input)

\* NMLBase.comma_sep_list.  The result is [exc, val]: a raised exception, or
\* the returned value (a str or None).
Returned(v) == [exc |-> "none", val |-> v]
Raised(e) == [exc |-> e, val |-> None]

RECURSIVE JoinItems(_, _)
\* ", ".join([str(item) for item in items]), or with repr(str(item))
JoinItems(items, inverted_commas) ==
  IF items = << >> THEN << >>
  ELSE (IF inverted_commas THEN StrRepr(PyStr(Head(items))) ELSE PyStr(Head(items)))
       \o (IF Len(items) = 1 THEN << >>
           ELSE << ",", " " >> \o JoinItems(Tail(items), inverted_commas))

comma_sep_list(list_input, inverted_commas) ==
  IF ~Truthy(list_input) THEN Returned(None)
  ELSE IF ~Iterable(list_input) THEN Raised("TypeError")
  ELSE Returned(StrV(JoinItems(Items(list_input), inverted_commas)))

\* NMLSetup.__init__: the declared parameters, their annotated types and defaults.
NMLSetup_init ==
  << [name |-> "sim_name", type |-> "str", default |-> None],
     [name |-> "max_layers", type |-> "int", default |-> None],
     [name |-> "min_layer_vol", type |-> "float", default |-> None],
     [name |-> "min_layer_thick", type |-> "float", default |-> None],
     [name |-> "max_layer_thick", type |-> "float", default |-> None],
     [name |-> "density_model", type |-> "int", default |-> None],
     [name |-> "non_avg", type |-> "bool", default |-> None] >>

\* NMLSetup.__str__: the header literal and the params list, one row per
\* (f-string, filter value) pair, in list order.
NMLSetup_str ==
  [ header |-> << "&", "glm_setup", " ", "\n" >>,
    params |->
  << [name |-> "sim_name", fmt |-> "quoted", val |-> "sim_name"],
     [name |-> "max_layers", fmt |-> "plain", val |-> "max_layers"],
     [name |-> "min_layer_vol", fmt |-> "plain", val |-> "min_layer_vol"],
     [name |-> "min_layer_thick", fmt |-> "plain", val |-> "min_layer_thick"],
     [name |-> "max_layer_thick", fmt |-> "plain", val |-> "max_layer_thick"],
     [name |-> "density_model", fmt |-> "plain", val |-> "density_model"],
     [name |-> "non_avg", fmt |-> "bool", val |-> "non_avg"] >> ]

\* NMLMorphometry.__init__: the declared parameters, their annotated types and defaults.
NMLMorphometry_init ==
  << [name |-> "lake_name", type |-> "str", default |-> None],
     [name |-> "latitude", type |-> "float", default |-> None],
     [name |-> "longitude", type |-> "float", default |-> None],
     [name |-> "base_elev", type |-> "float", default |-> None],
     [name |-> "crest_elev", type |-> "float", default |-> None],
     [name |-> "bsn_len", type |-> "float", default |-> None],
     [name |-> "bsn_wid", type |-> "float", default |-> None],
     [name |-> "bsn_vals", type |-> "float", default |-> None],
     [name |-> "H", type |-> "list_float", default |-> None],
     [name |-> "A", type |-> "list_float", default |-> None] >>

\* NMLMorphometry.__str__: the header literal and the params list, one row per
\* (f-string, filter value) pair, in list order.
NMLMorphometry_str ==
  [ header |-> << "&", "morphometry", " ", "\n" >>,
    params |->
  << [name |-> "lake_name", fmt |-> "quoted", val |-> "lake_name"],
     [name |-> "latitude", fmt |-> "plain", val |-> "latitude"],
     [name |-> "longitude", fmt |-> "plain", val |-> "longitude"],
     [name |-> "base_elev", fmt |-> "plain", val |-> "base_elev"],
     [name |-> "crest_elev", fmt |-> "plain", val |-> "crest_elev"],
     [name |-> "bsn_len", fmt |-> "plain", val |-> "bsn_len"],
     [name |-> "bsn_wid", fmt |-> "plain", val |-> "bsn_wid"],
     [name |-> "bsn_vals", fmt |-> "plain", val |-> "bsn_vals"],
     [name |-> "H", fmt |-> "list", val |-> "H"],
     [name |-> "A", fmt |-> "list", val |-> "A"] >> ]

\* NMLMixing.__init__: the declared parameters, their annotated types and defaults.
NMLMixing_init ==
  << [name |-> "surface_mixing", type |-> "int", default |-> None],
     [name |-> "coef_mix_conv", type |-> "float", default |-> None],
     [name |-> "coef_wind_stir", type |-> "float", default |-> None],
     [name |-> "coef_mix_shear", type |-> "float", default |-> None],
     [name |-> "coef_mix_turb", type |-> "float", default |-> None],
     [name |-> "coef_mix_KH", type |-> "float", default |-> None],
     [name |-> "deep_mixing", type |-> "int", default |-> None],
     [name |-> "coef_mix_hyp", type |-> "float", default |-> None],
     [name |-> "diff", type |-> "float", default |-> None] >>

\* NMLMixing.__str__: the header literal and the params list, one row per
\* (f-string, filter value) pair, in list order.
NMLMixing_str ==
  [ header |-> << "&", "mixing", " ", "\n" >>,
    params |->
  << [name |-> "surface_mixing", fmt |-> "plain", val |-> "surface_mixing"],
     [name |-> "coef_mix_conv", fmt |-> "plain", val |-> "coef_mix_conv"],
     [name |-> "coef_wind_stir", fmt |-> "plain", val |-> "coef_wind_stir"],
     [name |-> "coef_mix_shear", fmt |-> "plain", val |-> "coef_mix_shear"],
     [name |-> "coef_mix_turb", fmt |-> "plain", val |-> "coef_mix_turb"],
     [name |-> "coef_mix_KH", fmt |-> "plain", val |-> "coef_mix_KH"],
     [name |-> "deep_mixing", fmt |-> "plain", val |-> "deep_mixing"],
     [name |-> "coef_mix_hyp", fmt |-> "plain", val |-> "coef_mix_hyp"],
     [name |-> "diff", fmt |-> "plain", val |-> "diff"] >> ]

\* NMLTime.__init__: the declared parameters, their annotated types and defaults.
NMLTime_init ==
  << [name |-> "timefmt", type |-> "int", default |-> None],
     [name |-> "start", type |-> "str", default |-> None],
     [name |-> "stop", type |-> "int", default |-> None],
     [name |-> "dt", type |-> "float", default |-> None],
     [name |-> "num_days", type |-> "int", default |-> None],
     [name |-> "timezone", type |-> "float", default |-> None] >>

\* NMLTime.__str__: the header literal and the params list, one row per
\* (f-string, filter value) pair, in list order.
NMLTime_str ==
  [ header |-> << "&", "time", " ", "\n" >>,
    params |->
  << [name |-> "timefmt", fmt |-> "plain", val |-> "timefmt"],
     [name |-> "start", fmt |-> "quoted", val |-> "start"],
     [name |-> "stop", fmt |-> "quoted", val |-> "stop"],
     [name |-> "dt", fmt |-> "plain", val |-> "dt"],
     [name |-> "num_days", fmt |-> "plain", val |-> "num_days"],
     [name |-> "timezone", fmt |-> "plain", val |-> "timezone"] >> ]

\* NMLOutput.__init__: the declared parameters, their annotated types and defaults.
NMLOutput_init ==
  << [name |-> "out_dir", type |-> "str", default |-> None],
     [name |-> "out_fn", type |-> "str", default |-> None],
     [name |-> "nsave", type |-> "int", default |-> None],
     [name |-> "csv_lake_fname", type |-> "str", default |-> None],
     [name |-> "csv_point_nlevs", type |-> "float", default |-> None],
     [name |-> "csv_point_fname", type |-> "str", default |-> None],
     [name |-> "csv_point_frombot", type |-> "list_float", default |-> None],
     [name |-> "csv_point_at", type |-> "list_float", default |-> None],
     [name |-> "csv_point_nvars", type |-> "int", default |-> None],
     [name |-> "csv_point_vars", type |-> "list_str", default |-> None],
     [name |-> "csv_outlet_allinone", type |-> "bool", default |-> BoolV(FALSE)],
     [name |-> "csv_outlet_fname", type |-> "str", default |-> None],
     [name |-> "csv_outlet_nvars", type |-> "int", default |-> None],
     [name |-> "csv_outlet_vars", type |-> "list_str", default |-> None],
     [name |-> "csv_ovrflw_fname", type |-> "str", default |-> None] >>

\* NMLOutput.__str__: the header literal and the params list, one row per
\* (f-string, filter value) pair, in list order.
NMLOutput_str ==
  [ header |-> << "&", "output", " ", "\n" >>,
    params |->
  << [name |-> "out_dir", fmt |-> "quoted", val |-> "out_dir"],
     [name |-> "out_fn", fmt |-> "quoted", val |-> "out_fn"],
     [name |-> "nsave", fmt |-> "plain", val |-> "nsave"],
     [name |-> "csv_lake_fname", fmt |-> "quoted", val |-> "csv_lake_fname"],
     [name |-> "csv_point_nlevs", fmt |-> "plain", val |-> "csv_point_nlevs"],
     [name |-> "csv_point_fname", fmt |-> "quoted", val |-> "csv_point_fname"],
     [name |-> "csv_point_frombot", fmt |-> "list", val |-> "csv_point_frombot"],
     [name |-> "csv_point_at", fmt |-> "list", val |-> "csv_point_at"],
     [name |-> "csv_point_nvars", fmt |-> "plain", val |-> "csv_point_nvars"],
     [name |-> "csv_point_vars", fmt |-> "qlist", val |-> "csv_point_vars"],
     [name |-> "csv_outlet_allinone", fmt |-> "bool", val |-> "csv_outlet_allinone"],
     [name |-> "csv_outlet_fname", fmt |-> "quoted", val |-> "csv_outlet_fname"],
     [name |-> "csv_outlet_nvars", fmt |-> "plain", val |-> "csv_outlet_nvars"],
     [name |-> "csv_outlet_vars", fmt |-> "qlist", val |-> "csv_outlet_vars"],
     [name |-> "csv_ovrflw_fname", fmt |-> "quoted", val |-> "csv_ovrflw_fname"] >> ]

\* NMLInitProfiles.__init__: the declared parameters, their annotated types and defaults.
NMLInitProfiles_init ==
  << [name |-> "lake_depth", type |-> "float", default |-> None],
     [name |-> "num_depths", type |-> "int", default |-> None],
     [name |-> "the_depths", type |-> "list_float", default |-> None],
     [name |-> "the_temps", type |-> "list_float", default |-> None],
     [name |-> "the_sals", type |-> "list_float", default |-> None],
     [name |-> "num_wq_vars", type |-> "int", default |-> None],
     [name |-> "wq_names", type |-> "list_str", default |-> None],
     [name |-> "wq_init_vals", type |-> "list_float", default |-> None] >>

\* NMLInitProfiles.__str__: the header literal and the params list, one row per
\* (f-string, filter value) pair, in list order.
NMLInitProfiles_str ==
  [ header |-> << "&", "init_profiles", " ", "\n" >>,
    params |->
  << [name |-> "lake_depth", fmt |-> "plain", val |-> "lake_depth"],
     [name |-> "num_depths", fmt |-> "plain", val |-> "num_depths"],
     [name |-> "the_depths", fmt |-> "list", val |-> "the_depths"],
     [name |-> "the_temps", fmt |-> "list", val |-> "the_temps"],
     [name |-> "the_sals", fmt |-> "list", val |-> "the_sals"],
     [name |-> "num_wq_vars", fmt |-> "plain", val |-> "num_wq_vars"],
     [name |-> "wq_names", fmt |-> "qlist", val |-> "wq_names"],
     [name |-> "wq_init_vals", fmt |-> "list", val |-> "wq_init_vals"] >> ]

\* NMLMeteorology.__init__: the declared parameters, their annotated types and defaults.
NMLMeteorology_init ==
  << [name |-> "met_sw", type |-> "bool", default |-> None],
     [name |-> "meteo_fl", type |-> "str", default |-> None],
     [name |-> "subdaily", type |-> "bool", default |-> None],
     [name |-> "time_fmt", type |-> "str", default |-> None],
     [name |-> "rad_mode", type |-> "int", default |-> None],
     [name |-> "albedo_mode", type |-> "int", default |-> None],
     [name |-> "sw_factor", type |-> "float", default |-> None],
     [name |-> "lw_type", type |-> "str", default |-> None],
     [name |-> "cloud_mode", type |-> "int", default |-> None],
     [name |-> "lw_factor", type |-> "float", default |-> None],
     [name |-> "atm_stab", type |-> "int", default |-> None],
     [name |-> "rh_factor", type |-> "float", default |-> None],
     [name |-> "at_factor", type |-> "float", default |-> None],
     [name |-> "ce", type |-> "float", default |-> None],
     [name |-> "ch", type |-> "float", default |-> None],
     [name |-> "rain_sw", type |-> "bool", default |-> None],
     [name |-> "rain_factor", type |-> "float", default |-> None],
     [name |-> "catchrain", type |-> "bool", default |-> None],
     [name |-> "rain_threshold", type |-> "float", default |-> None],
     [name |-> "runoff_coef", type |-> "float", default |-> None],
     [name |-> "cd", type |-> "float", default |-> None],
     [name |-> "wind_factor", type |-> "float", default |-> None],
     [name |-> "fetch_mode", type |-> "int", default |-> None],
     [name |-> "num_dir", type |-> "int", default |-> None],
     [name |-> "wind_dir", type |-> "float", default |-> None],
     [name |-> "fetch_scale", type |-> "float", default |-> None] >>

\* NMLMeteorology.__str__: the header literal and the params list, one row per
\* (f-string, filter value) pair, in list order.
NMLMeteorology_str ==
  [ header |-> << "&", "meteorology", " ", "\n" >>,
    params |->
  << [name |-> "met_sw", fmt |-> "bool", val |-> "met_sw"],
     [name |-> "meteo_fl", fmt |-> "quoted", val |-> "meteo_fl"],
     [name |-> "subdaily", fmt |-> "bool", val |-> "subdaily"],
     [name |-> "time_fmt", fmt |-> "quoted", val |-> "time_fmt"],
     [name |-> "rad_mode", fmt |-> "plain", val |-> "rad_mode"],
     [name |-> "albedo_mode", fmt |-> "plain", val |-> "albedo_mode"],
     [name |-> "sw_factor", fmt |-> "plain", val |-> "sw_factor"],
     [name |-> "lw_type", fmt |-> "quoted", val |-> "lw_type"],
     [name |-> "cloud_mode", fmt |-> "plain", val |-> "cloud_mode"],
     [name |-> "lw_factor", fmt |-> "plain", val |-> "lw_factor"],
     [name |-> "atm_stab", fmt |-> "plain", val |-> "atm_stab"],
     [name |-> "rh_factor", fmt |-> "plain", val |-> "rh_factor"],
     [name |-> "at_factor", fmt |-> "plain", val |-> "at_factor"],
     [name |-> "ce", fmt |-> "plain", val |-> "ce"],
     [name |-> "ch", fmt |-> "plain", val |-> "ch"],
     [name |-> "rain_sw", fmt |-> "bool", val |-> "rain_sw"],
     [name |-> "rain_factor", fmt |-> "plain", val |-> "rain_factor"],
     [name |-> "catchrain", fmt |-> "bool", val |-> "catchrain"],
     [name |-> "rain_threshold", fmt |-> "plain", val |-> "rain_threshold"],
     [name |-> "runoff_coef", fmt |-> "plain", val |-> "runoff_coef"],
     [name |-> "cd", fmt |-> "plain", val |-> "cd"],
     [name |-> "wind_factor", fmt |-> "plain", val |-> "wind_factor"],
     [name |-> "fetch_mode", fmt |-> "plain", val |-> "fetch_mode"],
     [name |-> "num_dir", fmt |-> "plain", val |-> "num_dir"],
     [name |-> "wind_dir", fmt |-> "plain", val |-> "wind_dir"],
     [name |-> "fetch_scale", fmt |-> "plain", val |-> "fetch_scale"] >> ]

\* NMLLight.__init__: the declared parameters, their annotated types and defaults.
NMLLight_init ==
  << [name |-> "light_mode", type |-> "int", default |-> None],
     [name |-> "Kw", type |-> "float", default |-> None],
     [name |-> "Kw_file", type |-> "str", default |-> None],
     [name |-> "n_bands", type |-> "int", default |-> None],
     [name |-> "light_extc", type |-> "list_float", default |-> None],
     [name |-> "energy_frac", type |-> "list_float", default |-> None],
     [name |-> "Benthic_Imin", type |-> "float", default |-> None] >>

\* NMLLight.__str__: the header literal and the params list, one row per
\* (f-string, filter value) pair, in list order.
NMLLight_str ==
  [ header |-> << "&", "light", " ", "\n" >>,
    params |->
  << [name |-> "light_mode", fmt |-> "plain", val |-> "light_mode"],
     [name |-> "Kw", fmt |-> "plain", val |-> "Kw"],
     [name |-> "n_bands", fmt |-> "plain", val |-> "n_bands"],
     [name |-> "light_extc", fmt |-> "list", val |-> "light_extc"],
     [name |-> "energy_frac", fmt |-> "list", val |-> "energy_frac"],
     [name |-> "Benthic_Imin", fmt |-> "plain", val |-> "Benthic_Imin"] >> ]

\* NMLBirdModel.__init__: the declared parameters, their annotated types and defaults.
NMLBirdModel_init ==
  << [name |-> "AP", type |-> "float", default |-> None],
     [name |-> "Oz", type |-> "float", default |-> None],
     [name |-> "WatVap", type |-> "float", default |-> None],
     [name |-> "AOD500", type |-> "float", default |-> None],
     [name |-> "AOD380", type |-> "float", default |-> None],
     [name |-> "Albedo", type |-> "float", default |-> None] >>

\* NMLBirdModel.__str__: the header literal and the params list, one row per
\* (f-string, filter value) pair, in list order.
NMLBirdModel_str ==
  [ header |-> << "&", "bird_model", " ", "\n" >>,
    params |->
  << [name |-> "AP", fmt |-> "plain", val |-> "AP"],
     [name |-> "Oz", fmt |-> "plain", val |-> "Oz"],
     [name |-> "WatVap", fmt |-> "plain", val |-> "WatVap"],
     [name |-> "AOD500", fmt |-> "plain", val |-> "AOD500"],
     [name |-> "AOD380", fmt |-> "plain", val |-> "AOD380"],
     [name |-> "Albedo", fmt |-> "plain", val |-> "Albedo"] >> ]

\* NMLInflows.__init__: the declared parameters, their annotated types and defaults.
NMLInflows_init ==
  << [name |-> "num_inflows", type |-> "int", default |-> None],
     [name |-> "names_of_strms", type |-> "list_str", default |-> None],
     [name |-> "subm_flag", type |-> "list_bool", default |-> None],
     [name |-> "strm_hf_angle", type |-> "list_float", default |-> None],
     [name |-> "strmbd_slope", type |-> "list_float", default |-> None],
     [name |-> "strmbd_drag", type |-> "list_float", default |-> None],
     [name |-> "coef_inf_entrain", type |-> "list_float", default |-> None],
     [name |-> "inflow_factor", type |-> "list_float", default |-> None],
     [name |-> "inflow_fl", type |-> "list_str", default |-> None],
     [name |-> "inflow_varnum", type |-> "int", default |-> None],
     [name |-> "inflow_vars", type |-> "list_str", default |-> None],
     [name |-> "time_fmt", type |-> "str", default |-> None] >>

\* NMLInflows.__str__: the header literal and the params list, one row per
\* (f-string, filter value) pair, in list order.
NMLInflows_str ==
  [ header |-> << "&", "inflows", " ", "\n" >>,
    params |->
  << [name |-> "num_inflows", fmt |-> "plain", val |-> "num_inflows"],
     [name |-> "names_of_strms", fmt |-> "qlist", val |-> "names_of_strms"],
     [name |-> "subm_flag", fmt |-> "boollist", val |-> "subm_flag"],
     [name |-> "strm_hf_angle", fmt |-> "list", val |-> "strm_hf_angle"],
     [name |-> "strmbd_slope", fmt |-> "list", val |-> "strmbd_slope"],
     [name |-> "strmbd_drag", fmt |-> "list", val |-> "strmbd_drag"],
     [name |-> "coef_inf_entrain", fmt |-> "list", val |-> "coef_inf_entrain"],
     [name |-> "inflow_factor", fmt |-> "list", val |-> "inflow_factor"],
     [name |-> "inflow_fl", fmt |-> "qlist", val |-> "inflow_fl"],
     [name |-> "inflow_varnum", fmt |-> "plain", val |-> "inflow_varnum"],
     [name |-> "inflow_vars", fmt |-> "qlist", val |-> "inflow_vars"],
     [name |-> "time_fmt", fmt |-> "quoted", val |-> "time_fmt"] >> ]

\* NMLOutflows.__init__: the declared parameters, their annotated types and defaults.
NMLOutflows_init ==
  << [name |-> "num_outlet", type |-> "int", default |-> None],
     [name |-> "outflow_fl", type |-> "str", default |-> None],
     [name |-> "time_fmt", type |-> "str", default |-> None],
     [name |-> "outflow_factor", type |-> "list_float", default |-> None],
     [name |-> "outflow_thick_limit", type |-> "list_float", default |-> None],
     [name |-> "single_layer_draw", type |-> "list_bool", default |-> None],
     [name |-> "flt_off_sw", type |-> "list_bool", default |-> None],
     [name |-> "outlet_type", type |-> "list_int", default |-> None],
     [name |-> "outl_elvs", type |-> "list_float", default |-> None],
     [name |-> "bsn_len_outl", type |-> "list_float", default |-> None],
     [name |-> "bsn_wid_outl", type |-> "list_float", default |-> None],
     [name |-> "seepage", type |-> "bool", default |-> None],
     [name |-> "seepage_rate", type |-> "float", default |-> None],
     [name |-> "crest_width", type |-> "float", default |-> None],
     [name |-> "crest_factor", type |-> "float", default |-> None] >>

\* NMLOutflows.__str__: the header literal and the params list, one row per
\* (f-string, filter value) pair, in list order.
NMLOutflows_str ==
  [ header |-> << "&", "outflows", " ", "\n" >>,
    params |->
  << [name |-> "num_outlet", fmt |-> "plain", val |-> "num_outlet"],
     [name |-> "outflow_fl", fmt |-> "quoted", val |-> "outflow_fl"],
     [name |-> "time_fmt", fmt |-> "quoted", val |-> "time_fmt"],
     [name |-> "outflow_factor", fmt |-> "list", val |-> "outflow_factor"],
     [name |-> "outflow_thick_limit", fmt |-> "list", val |-> "outflow_thick_limit"],
     [name |-> "single_layer_draw", fmt |-> "boollist", val |-> "single_layer_draw"],
     [name |-> "flt_off_sw", fmt |-> "boollist", val |-> "flt_off_sw"],
     [name |-> "outlet_type", fmt |-> "plain", val |-> "outlet_type"],
     [name |-> "outl_elvs", fmt |-> "list", val |-> "outl_elvs"],
     [name |-> "bsn_len_outl", fmt |-> "list", val |-> "bsn_len_outl"],
     [name |-> "bsn_wid_outl", fmt |-> "list", val |-> "bsn_wid_outl"],
     [name |-> "seepage", fmt |-> "bool", val |-> "seepage"],
     [name |-> "seepage_rate", fmt |-> "plain", val |-> "seepage_rate"],
     [name |-> "crest_width", fmt |-> "plain", val |-> "crest_width"],
     [name |-> "crest_factor", fmt |-> "plain", val |-> "crest_factor"] >> ]

\* NMLSediment.__init__: the declared parameters, their annotated types and defaults.
NMLSediment_init ==
  << [name |-> "sed_heat_Ksoil", type |-> "float", default |-> None],
     [name |-> "sed_temp_depth", type |-> "float", default |-> None],
     [name |-> "sed_temp_mean", type |-> "list_float", default |-> None],
     [name |-> "sed_temp_amplitude", type |-> "list_float", default |-> None],
     [name |-> "sed_temp_peak_doy", type |-> "list_int", default |-> None],
     [name |-> "benthic_mode", type |-> "int", default |-> None],
     [name |-> "n_zones", type |-> "int", default |-> None],
     [name |-> "zone_heights", type |-> "list_float", default |-> None],
     [name |-> "sed_reflectivity", type |-> "list_float", default |-> None],
     [name |-> "sed_roughness", type |-> "list_float", default |-> None] >>

\* NMLSediment.__str__: the header literal and the params list, one row per
\* (f-string, filter value) pair, in list order.
NMLSediment_str ==
  [ header |-> << "&", "sediment", " ", "\n" >>,
    params |->
  << [name |-> "sed_heat_Ksoil", fmt |-> "plain", val |-> "sed_heat_Ksoil"],
     [name |-> "sed_temp_depth", fmt |-> "plain", val |-> "sed_temp_depth"],
     [name |-> "sed_temp_mean", fmt |-> "list", val |-> "sed_temp_mean"],
     [name |-> "sed_temp_amplitude", fmt |-> "list", val |-> "sed_temp_amplitude"],
     [name |-> "sed_temp_peak_doy", fmt |-> "list", val |-> "sed_temp_peak_doy"],
     [name |-> "benthic_mode", fmt |-> "plain", val |-> "benthic_mode"],
     [name |-> "n_zones", fmt |-> "plain", val |-> "n_zones"],
     [name |-> "zone_heights", fmt |-> "list", val |-> "zone_heights"],
     [name |-> "sed_reflectivity", fmt |-> "list", val |-> "sed_reflectivity"],
     [name |-> "sed_roughness", fmt |-> "list", val |-> "sed_roughness"] >> ]

\* NMLSnowIce.__init__: the declared parameters, their annotated types and defaults.
NMLSnowIce_init ==
  << [name |-> "snow_albedo_factor", type |-> "float", default |-> None],
     [name |-> "snow_rho_max", type |-> "float", default |-> None],
     [name |-> "snow_rho_min", type |-> "float", default |-> None] >>

\* NMLSnowIce.__str__: the header literal and the params list, one row per
\* (f-string, filter value) pair, in list order.
NMLSnowIce_str ==
  [ header |-> << "&", "snowice", " ", "\n" >>,
    params |->
  << [name |-> "snow_albedo_factor", fmt |-> "plain", val |-> "snow_albedo_factor"],
     [name |-> "snow_rho_max", fmt |-> "plain", val |-> "snow_rho_max"],
     [name |-> "snow_rho_min", fmt |-> "plain", val |-> "snow_rho_min"] >> ]

\* NMLWQSetup.__init__: the declared parameters, their annotated types and defaults.
NMLWQSetup_init ==
  << [name |-> "wq_lib", type |-> "str", default |-> None],
     [name |-> "wq_nml_file", type |-> "str", default |-> None],
     [name |-> "bioshade_feedback", type |-> "bool", default |-> None],
     [name |-> "mobility_off", type |-> "bool", default |-> None],
     [name |-> "ode_method", type |-> "int", default |-> None],
     [name |-> "split_factor", type |-> "float", default |-> None],
     [name |-> "repair_state", type |-> "bool", default |-> None] >>

\* NMLWQSetup.__str__: the header literal and the params list, one row per
\* (f-string, filter value) pair, in list order.
NMLWQSetup_str ==
  [ header |-> << "&", "wq_setup", " ", "\n" >>,
    params |->
  << [name |-> "wq_lib", fmt |-> "quoted", val |-> "wq_lib"],
     [name |-> "wq_nml_file", fmt |-> "quoted", val |-> "wq_nml_file"],
     [name |-> "bioshade_feedback", fmt |-> "bool", val |-> "bioshade_feedback"],
     [name |-> "mobility_off", fmt |-> "bool", val |-> "mobility_off"],
     [name |-> "ode_method", fmt |-> "plain", val |-> "ode_method"],
     [name |-> "split_factor", fmt |-> "plain", val |-> "split_factor"],
     [name |-> "repair_state", fmt |-> "bool", val |-> "repair_state"] >> ]
----------------------------------------------------------------------------
\* The block classes

Classes ==
  { "NMLSetup", "NMLMorphometry", "NMLMixing", "NMLTime", "NMLOutput",
    "NMLInitProfiles", "NMLMeteorology", "NMLLight", "NMLBirdModel",
    "NMLInflows", "NMLOutflows", "NMLSediment", "NMLSnowIce", "NMLWQSetup" }

\* the signature of the __init__ of class c
ClassInit(c) ==
  CASE c = "NMLSetup" -> NMLSetup_init
    [] c = "NMLMorphometry" -> NMLMorphometry_init
    [] c = "NMLMixing" -> NMLMixing_init
    [] c = "NMLTime" -> NMLTime_init
    [] c = "NMLOutput" -> NMLOutput_init
    [] c = "NMLInitProfiles" -> NMLInitProfiles_init
    [] c = "NMLMeteorology" -> NMLMeteorology_init
    [] c = "NMLLight" -> NMLLight_init
    [] c = "NMLBirdModel" -> NMLBirdModel_init
    [] c = "NMLInflows" -> NMLInflows_init
    [] c = "NMLOutflows" -> NMLOutflows_init
    [] c = "NMLSediment" -> NMLSediment_init
    [] c = "NMLSnowIce" -> NMLSnowIce_init
    [] c = "NMLWQSetup" -> NMLWQSetup_init

\* the __str__ of class c
ClassStr(c) ==
  CASE c = "NMLSetup" -> NMLSetup_str
    [] c = "NMLMorphometry" -> NMLMorphometry_str
    [] c = "NMLMixing" -> NMLMixing_str
    [] c = "NMLTime" -> NMLTime_str
    [] c = "NMLOutput" -> NMLOutput_str
    [] c = "NMLInitProfiles" -> NMLInitProfiles_str
    [] c = "NMLMeteorology" -> NMLMeteorology_str
    [] c = "NMLLight" -> NMLLight_str
    [] c = "NMLBirdModel" -> NMLBirdModel_str
    [] c = "NMLInflows" -> NMLInflows_str
    [] c = "NMLOutflows" -> NMLOutflows_str
    [] c = "NMLSediment" -> NMLSediment_str
    [] c = "NMLSnowIce" -> NMLSnowIce_str
    [] c = "NMLWQSetup" -> NMLWQSetup_str

\* the names of the declared (constructor) parameters of class c
Declared(c) == { ClassInit(c)[i].name : i \in 1..Len(ClassInit(c)) }

\* the position of name p in the signature of c, 0 when it is not declared
DeclIndex(c, p) ==
  IF p \in Declared(c)
  THEN CHOOSE i \in 1..Len(ClassInit(c)) : ClassInit(c)[i].name = p
  ELSE 0

DeclType(c, p) == ClassInit(c)[DeclIndex(c, p)].type

\* X.__init__(**kwargs): every declared parameter becomes an attribute, holding
\* the argument passed or else the default.
block_init(c, kwargs) ==
  [p \in Declared(c) |->
     IF p \in DOMAIN kwargs THEN kwargs[p] ELSE ClassInit(c)[DeclIndex(c, p)].default]

\* an assignment that names an existing attribute only
setattr_existing(a, key, value) ==
  [k \in DOMAIN a |-> IF k = key THEN value ELSE a[k]]

\* setattr(self, key, value)
setattr(a, key, value) ==
  [k \in DOMAIN a \cup {key} |-> IF k = key THEN value ELSE a[k]]

RECURSIVE set_attributes(_, _)
\* NMLBase.set_attributes: attrs_dict is the sequence of the mapping's items,
\* in the mapping's own (insertion) order.
set_attributes(a, attrs_dict) ==
  IF attrs_dict = << >> THEN a
  ELSE set_attributes(setattr(a, attrs_dict[1].key, attrs_dict[1].value), Tail(attrs_dict))

Indent == << " ", " ", " " >>
Equals == << " ", "=", " " >>
NL == << "\n" >>

\* The value part of one f-string of a params list, by the shape of its
\* replacement field.
FormatField(fmt, v) ==
  CASE fmt = "plain" -> Returned(StrV(PyStr(v)))
    [] fmt = "quoted" -> Returned(StrV(<< "'" >> \o PyStr(v) \o << "'" >>))
    [] fmt = "bool" -> Returned(StrV(PyStr(fortran_bool_string(v))))
    [] fmt = "list" -> comma_sep_list(v, FALSE)
    [] fmt = "qlist" -> comma_sep_list(v, TRUE)
    [] fmt = "boollist" -> comma_sep_list(fortran_bool_string(v), FALSE)

\* the rows in the opposite order
Rows_reversed(c) == Reverse(ClassStr(c).params)

\* the rows of the params list of class c
Rows(c) == ClassStr(c).params

\* "   <name> = <field>", once the field f is formatted
ParamLine(name, f) ==
  IF f.exc # "none" THEN f
  ELSE Returned(StrV(Indent \o << name >> \o Equals \o PyStr(f.val)))

\* the helpers the replacement field of each shape calls, each as
\* self.<helper>(...)
Helpers(fmt) ==
  CASE fmt = "bool" -> {"fortran_bool_string"}
    [] fmt = "list" -> {"comma_sep_list"}
    [] fmt = "qlist" -> {"comma_sep_list"}
    [] fmt = "boollist" -> {"fortran_bool_string", "comma_sep_list"}
    [] OTHER -> {}

\* the f-string of row r, evaluated on the attributes a.  self.<helper> is
\* looked up on the instance first: an attribute of that name, stored by
\* setattr, is found in place of the static method, and calling a value that
\* is not callable raises TypeError.
ParamStr(r, a) ==
  IF Helpers(r.fmt) \cap DOMAIN a # {} THEN Raised("TypeError")
  ELSE ParamLine(r.name, FormatField(r.fmt, a[r.name]))

\* a filter that keeps every row
Keep_every(r, a) == TRUE

\* the filter of the generator in the return statement
Keep(r, a) == a[r.val] # None

\* the params list with one more (param_str, param_val) pair, f the pair's
\* f-string
params_add(acc, f, keep) ==
  IF f.exc # "none" THEN Raised(f.exc)
  ELSE Returned(Append(acc.val, [str |-> f.val.s, keep |-> keep]))

RECURSIVE params_from(_, _, _)
\* the params list, built row by row: acc is [exc, val]; the first f-string
\* that raises ends it
params_from(acc, rows, a) ==
  IF rows = << >> \/ acc.exc # "none" THEN acc
  ELSE params_from(params_add(acc, ParamStr(Head(rows), a), Keep(Head(rows), a)),
                   Tail(rows), a)

RECURSIVE JoinKept(_)
\* "\n".join(param_str for param_str, param_val in params if <kept>)
JoinKept(params) ==
  IF params = << >> THEN << >>
  ELSE IF ~Head(params).keep THEN JoinKept(Tail(params))
  ELSE IF \A i \in 2..Len(params) : ~params[i].keep THEN Head(params).str
  ELSE Head(params).str \o NL \o JoinKept(Tail(params))

\* the return statement of __str__
block_return(header, params) ==
  IF params.exc # "none" THEN Raised(params.exc)
  ELSE Returned(StrV(header \o JoinKept(params.val) \o << "\n", "/" >>))

\* X.__str__ on the attributes a: every f-string of the params list is
\* evaluated when the list is built, then the rows whose value is not None are
\* joined.  The result is [exc, val].
block_str(c, a) ==
  block_return(ClassStr(c).header, params_from(Returned(<< >>), Rows(c), a))

----------------------------------------------------------------------------
\* Bounds on the inputs

\* the number of distinct attribute names the mappings of one run mention
MaxKeys == 2
\* the longest list value passed
MaxLen == 2
\* the number of optional slots one NML(...) call passes
MaxOptional == 1
\* the number of required slots one NML(...) call passes as None
MaxNone == 1

\* a name that no block class declares
Undeclared == "foo"

SampleStr == StrV(<< "L", "a", "k", "e", " ", "A" >>)
SampleNames == << StrV(<< "t", "e", "m", "p" >>), StrV(<< "s", "a", "l", "t" >>),
                  StrV(<< "O", "X", "Y" >>), StrV(<< "N", "I", "T" >>) >>

\* the i-th element of the sample list of a list type
SampleItem(type, i) ==
  CASE type = "list_float" -> FloatV(50 * i - 150)
    [] type = "list_int" -> IntV(i)
    [] type = "list_bool" -> BoolV(i % 2 = 1)
    [] type = "list_str" -> SampleNames[((i - 1) % Len(SampleNames)) + 1]

IsListType(type) == type \in {"list_float", "list_int", "list_bool", "list_str"}

\* the values a caller passes for a parameter of the given type: values of
\* the annotated type, None and, for a list parameter, the empty list, a list
\* of MaxLen items and a number in place of the list (nothing checks the type)
Samples(type) ==
  {None} \cup
  CASE type = "str" -> {SampleStr}
    [] type = "int" -> {IntV(500)}
    [] type = "float" -> {FloatV(-100)}
    [] type = "bool" -> {BoolV(TRUE), BoolV(FALSE)}
    [] type = "any" -> {IntV(500)}
    [] OTHER -> { ListV([i \in 1..n |-> SampleItem(type, i)]) : n \in {0, MaxLen} } \cup {IntV(5)}

KeyType(c, k) == IF k \in Declared(c) THEN DeclType(c, k) ELSE "any"

RECURSIVE MappingsOver(_, _)
\* the mappings whose keys are some of the names of the sequence ks, in the
\* order of ks
MappingsOver(c, ks) ==
  IF ks = << >> THEN { << >> }
  ELSE MappingsOver(c, Tail(ks)) \cup
       { << [key |-> Head(ks), value |-> v] >> \o m :
           v \in Samples(KeyType(c, Head(ks))), m \in MappingsOver(c, Tail(ks)) }

\* the names a caller may mention for class c: the declared parameters, in
\* order, then a name the class does not declare
Mentionable(c) == [i \in 1..Len(ClassInit(c)) |-> ClassInit(c)[i].name] \o << Undeclared >>

\* the names of the set ks in declared order
InOrder(c, ks) == SelectSeq(Mentionable(c), LAMBDA k : k \in ks)

\* the mappings over names of ks whose items come in declared order
OrderedMappings(c, ks) == MappingsOver(c, InOrder(c, ks))

\* the mappings over names of ks, as sequences of items: the keys in declared
\* order and in the reverse of it
Mappings(c, ks) ==
  OrderedMappings(c, ks) \cup MappingsOver(c, Reverse(InOrder(c, ks)))

\* the same mappings as keyword arguments (a function from names to values)
AsKwargs(m) ==
  [k \in { m[i].key : i \in 1..Len(m) } |->
     m[CHOOSE i \in 1..Len(m) : m[i].key = k].value]

KeysOf(m) == [i \in 1..Len(m) |-> m[i].key]

----------------------------------------------------------------------------
\* The NML document

\* NML.__init__: the signature, in order, with the parameters that have no
\* default marked required
NML_init ==
  << [name |-> "setup", required |-> TRUE],
     [name |-> "morphometry", required |-> TRUE],
     [name |-> "time", required |-> TRUE],
     [name |-> "init_profiles", required |-> TRUE],
     [name |-> "mixing", required |-> FALSE],
     [name |-> "output", required |-> FALSE],
     [name |-> "meteorology", required |-> FALSE],
     [name |-> "light", required |-> FALSE],
     [name |-> "bird_model", required |-> FALSE],
     [name |-> "inflows", required |-> FALSE],
     [name |-> "outflows", required |-> FALSE],
     [name |-> "sediment", required |-> FALSE],
     [name |-> "ice_snow", required |-> FALSE],
     [name |-> "wq_setup", required |-> FALSE] >>

Slots == { NML_init[i].name : i \in 1..Len(NML_init) }
RequiredSlots == { NML_init[i].name : i \in { j \in 1..Len(NML_init) : NML_init[j].required } }
OptionalSlots == Slots \ RequiredSlots

\* the block class the class docstring names for each slot (NMLSnowIce is the
\* class that exists for ice_snow)
SlotClass(s) ==
  CASE s = "setup" -> "NMLSetup"
    [] s = "morphometry" -> "NMLMorphometry"
    [] s = "time" -> "NMLTime"
    [] s = "init_profiles" -> "NMLInitProfiles"
    [] s = "mixing" -> "NMLMixing"
    [] s = "output" -> "NMLOutput"
    [] s = "meteorology" -> "NMLMeteorology"
    [] s = "light" -> "NMLLight"
    [] s = "bird_model" -> "NMLBirdModel"
    [] s = "inflows" -> "NMLInflows"
    [] s = "outflows" -> "NMLOutflows"
    [] s = "sediment" -> "NMLSediment"
    [] s = "ice_snow" -> "NMLSnowIce"
    [] s = "wq_setup" -> "NMLWQSetup"

\* A slot holds a reference: "None"; "blk", the block under construction;
\* or "dflt", a block of the slot's class built with no arguments that nothing
\* else refers to.
NoDoc == [made |-> FALSE, slot |-> [s \in Slots |-> "None"]]

\* the body of NML.__init__: every slot is stored as given
NML_new(kwargs) ==
  [made |-> TRUE,
   slot |-> [s \in Slots |-> IF s \in DOMAIN kwargs THEN kwargs[s] ELSE "None"]]

\* str(X()) for the class X of each slot: the text of a block built with no
\* arguments
FreshStr == [s \in Slots |-> block_str(SlotClass(s), block_init(SlotClass(s), << >>))]

\* the plain string a caller passes for slot s in place of a block: the
\* slot's name
Body(s) == << s >>

\* str(x) of what a slot refers to; a slot may also hold "text", the plain
\* string Body(s), and str() of a str is the str itself
SlotStr(ref, s) ==
  IF ref = "blk" THEN block_str(cls, attrs)
  ELSE IF ref = "text" THEN Returned(StrV(Body(s)))
  ELSE FreshStr[s]

\* the order in which NML.__init__ stores the slots
nml_output_order_init ==
  << "setup", "mixing", "morphometry", "time", "output", "init_profiles",
     "meteorology", "light", "bird_model", "inflows", "outflows", "sediment",
     "ice_snow", "wq_setup" >>

\* the order of the `if self.<slot> is not None` statements of nml_output
nml_output_order ==
  << "setup", "mixing", "wq_setup", "morphometry", "time", "output",
     "init_profiles", "light", "bird_model", "sediment", "ice_snow",
     "meteorology", "inflows", "outflows" >>

\* config_string += str(self.<slot>) + "\n", r the result of the str call
config_add(acc, r) ==
  IF r.exc # "none" THEN r ELSE Returned(StrV(acc.val.s \o r.val.s \o << "\n" >>))

\* a step that gives a None slot a line of its own
nml_output_step_blank(acc, d, s) ==
  IF acc.exc # "none" THEN acc
  ELSE IF d.slot[s] = "None" THEN Returned(StrV(acc.val.s \o << "\n" >>))
  ELSE config_add(acc, SlotStr(d.slot[s], s))

\* one `if self.<slot> is not None: config_string += str(self.<slot>) + "\n"`
nml_output_step(acc, d, s) ==
  IF acc.exc # "none" \/ d.slot[s] = "None" THEN acc
  ELSE config_add(acc, SlotStr(d.slot[s], s))

RECURSIVE nml_output_from(_, _, _)
nml_output_from(acc, d, order) ==
  IF order = << >> THEN acc
  ELSE nml_output_from(nml_output_step(acc, d, Head(order)), d, Tail(order))

\* NML.write_nml.nml_output
nml_output(d) == nml_output_from(Returned(StrV(<< >>)), d, nml_output_order)

NoFile == [exists |-> FALSE, text |-> << >>]
FileWith(text) == [exists |-> TRUE, text |-> text]
\* an open for appending: the destination keeps what it holds
open_a(f) == FileWith(f.text)

\* open(file=..., mode="w") on an openable destination: created or truncated
open_w(f) == FileWith(<< >>)

\* How an operation ended: the operation, the exception raised ("none" when
\* it returned) and where; for a call that is given values, args; for one
\* that returns a value, val; prev is the operation before it and how that
\* one ended, where an action records it.
Outcome(op, exc, at) ==
  [op |-> op, exc |-> exc, at |-> at, base |-> << >>, custom |-> << >>,
   hasCustom |-> FALSE, block |-> << >>, args |-> << >>, val |-> None,
   prev |-> << "", "none" >>]

----------------------------------------------------------------------------
\* The blocks: construction, set_attributes, str

RECURSIVE KeySets(_, _)
\* the subsets of S with at most n elements
KeySets(S, n) ==
  IF n = 0 THEN { {} }
  ELSE LET smaller == KeySets(S, n - 1)
       IN smaller \cup { ks \cup {x} : ks \in smaller, x \in S }

\* the runs of n consecutive names of Mentionable(c), each run starting with
\* the last name of the run before it, so that every two adjacent names lie
\* in one run
KeyWindows(c, n) ==
  LET M == Mentionable(c)
      step == IF n > 1 THEN n - 1 ELSE 1
  IN { { M[i] : i \in (lo..(lo + n - 1)) \cap (1..Len(M)) } :
         lo \in { i \in 1..Len(M) : (i - 1) % step = 0 } }

\* X(**kwargs) for one class X: a new block
InitBlock(c, ks, m) ==
  /\ cls = c
  /\ keys = ks
  /\ attrs = block_init(c, AsKwargs(m))
  /\ everSet = { m[i].key : i \in 1..Len(m) }
  /\ doc = NoDoc
  /\ supplied = << >>
  /\ handles = 0
  /\ disk = << >>
  /\ last = [Outcome("__init__", "none", "") EXCEPT !.base = m]

Init ==
  /\ file = NoFile
  /\ \E c \in Classes :
       \E ks \in KeyWindows(c, MaxKeys) :
         \* keyword arguments: their order is of no consequence
         \E m \in OrderedMappings(c, ks \cap Declared(c)) :
           InitBlock(c, ks, m)

\* block.set_attributes(attrs_dict)
SetAttributes(attrs_dict) ==
  /\ attrs' = set_attributes(attrs, attrs_dict)
  /\ everSet' = everSet \cup { attrs_dict[i].key : i \in 1..Len(attrs_dict) }
  /\ last' = [Outcome("set_attributes", "none", "") EXCEPT !.base = attrs_dict]
  /\ UNCHANGED << cls, keys, doc, supplied, file, handles, disk >>

\* the mappings a caller may pass, for each class and each set of names
AttrsDicts == [c \in Classes |-> [ks \in KeyWindows(c, MaxKeys) |-> Mappings(c, ks)]]

Next == \E m \in AttrsDicts[cls][keys] : SetAttributes(m)

Spec == Init /\ [][Next]_vars

----------------------------------------------------------------------------
\* The JSON front end (src/glmpy/json.py)

\* the names bound at module level in json.py: its imports and its class
json_globals == { "json", "Union", "JSONToNML" }

\* the parameters NMLBase.set_attributes accepts besides self
set_attributes_params == { "attrs_dict" }

\* the class each branch of get_nml_attributes instantiates
json_branch(nml_block) ==
  CASE nml_block = "glm_setup" -> "NMLSetup"
    [] nml_block = "mixing" -> "NMLMixing"
    [] nml_block = "morphometry" -> "NMLMorphometry"
    [] nml_block = "time" -> "NMLTime"
    [] nml_block = "output" -> "NMLOutput"
    [] nml_block = "init_profiles" -> "NMLInitProfiles"
    [] nml_block = "meteorology" -> "NMLMeteorology"
    [] nml_block = "light" -> "NMLLight"
    [] nml_block = "bird_model" -> "NMLBirdModel"
    [] nml_block = "inflows" -> "NMLInflows"
    [] nml_block = "outflows" -> "NMLOutflows"
    [] nml_block = "sediment" -> "NMLSediment"
    [] nml_block = "ice_snow" -> "NMLIceSnow"
    [] nml_block = "wq_setup" -> "NMLWQSetup"
    [] OTHER -> ""

json_blocks ==
  { "glm_setup", "mixing", "morphometry", "time", "output", "init_profiles",
    "meteorology", "light", "bird_model", "inflows", "outflows", "sediment",
    "ice_snow", "wq_setup" }

\* JSONToNML.get_nml_attributes(nml_block, custom_attributes), with
\* json_data[nml_block] = base.  The class name is looked up among the
\* module's globals, then set_attributes is called with the keyword custom.
get_nml_attributes(nml_block, base, custom, hasCustom) ==
  LET c == json_branch(nml_block)
      call == [Outcome("get_nml_attributes", "none", "") EXCEPT
                 !.base = base, !.custom = custom, !.hasCustom = hasCustom]
  IN IF c = "" THEN [call EXCEPT !.at = "return None"]
     ELSE IF c \notin json_globals THEN [call EXCEPT !.exc = "NameError", !.at = c]
     ELSE IF "custom" \notin set_attributes_params
       THEN [call EXCEPT !.exc = "TypeError", !.at = "set_attributes"]
     ELSE LET a == set_attributes(block_init(c, << >>), base)
              r == block_str(c, a)
          IN [call EXCEPT !.exc = r.exc, !.at = "return str", !.block = a]

GetNmlAttributes(nml_block, base, custom, hasCustom) ==
  /\ last' = get_nml_attributes(nml_block, base, custom, hasCustom)
  /\ UNCHANGED << cls, keys, attrs, everSet, doc, supplied, file, handles, disk >>

\* a fresh block of one class; the mappings of the run mention the first
\* MaxKeys parameters the class declares
InitJson ==
  /\ file = NoFile
  /\ \E c \in Classes :
       InitBlock(c, { ClassInit(c)[i].name : i \in 1..MaxKeys }, << >>)

NextJson ==
  \* one call per run
  /\ last.op = "__init__"
  /\ \E b \in json_blocks \cup {"unknown"} :
       \E base \in OrderedMappings(cls, keys) :
         \/ GetNmlAttributes(b, base, << >>, FALSE)
         \/ \E custom \in OrderedMappings(cls, keys) : GetNmlAttributes(b, base, custom, TRUE)

SpecJson == InitJson /\ [][NextJson]_vars

----------------------------------------------------------------------------
\* The document: NML(...), write_nml

\* the slot the block under construction is meant for
SlotOf(c) == CHOOSE s \in Slots : SlotClass(s) = c

\* what a caller passes for slot s: the block under construction for its own
\* slot, a fresh block of the slot's class for any other
RefFor(s) == IF s = SlotOf(cls) THEN "blk" ELSE "dflt"

\* NML(**kwargs), the keyword arguments written in the given order.  Python
\* binds them by name; a parameter without default that is not passed is a
\* TypeError.
NewNML(kwargs, order) ==
  /\ IF RequiredSlots \subseteq DOMAIN kwargs
     THEN /\ doc' = NML_new(kwargs)
          /\ supplied' = order
          /\ last' = Outcome("NML", "none", "")
     ELSE /\ last' = Outcome("NML", "TypeError", "missing required argument")
          /\ UNCHANGED << doc, supplied >>
  /\ UNCHANGED << cls, keys, attrs, everSet, file, handles, disk >>

\* a with statement that leaves the handle open
with_exit_leak(h) == h

\* `with open(...) as file:` leaves the block, normally or by an exception
with_exit(h) == h - 1

\* The body of the with statement, `file.write(nml_output())`, on the opened
\* (created or truncated) destination, out the result of nml_output(): the
\* set of ways it can end, each [file, handles, exc, at].  nml_output() is
\* evaluated before file.write is called; the write may fail part way; the
\* with statement closes the file on every path.
with_body(opened, h, out) ==
  IF out.exc # "none"
  THEN { [file |-> opened, handles |-> with_exit(h), exc |-> out.exc, at |-> "nml_output"] }
  ELSE { [file |-> FileWith(opened.text \o out.val.s), handles |-> with_exit(h),
            exc |-> "none", at |-> ""] }
       \cup { [file |-> FileWith(opened.text \o SubSeq(out.val.s, 1, n)), handles |-> with_exit(h),
                exc |-> "OSError", at |-> "write"] : n \in {Len(out.val.s) \div 2} }

\* nml.write_nml(path): open() runs first and may fail, leaving no handle and
\* the destination as it was.
WriteNml ==
  /\ doc.made
  /\ \/ /\ last' = [Outcome("write_nml", "OSError", "open") EXCEPT !.prev = << last.op, last.exc >>]
        /\ UNCHANGED << file, handles >>
     \/ \E end \in with_body(open_w(file), handles + 1, nml_output(doc)) :
          /\ file' = end.file
          /\ handles' = end.handles
          /\ last' = [Outcome("write_nml", end.exc, end.at) EXCEPT !.prev = << last.op, last.exc >>]
  /\ UNCHANGED << cls, keys, attrs, everSet, doc, supplied, disk >>

\* the list-typed parameter a class declares first, if any
ProbeKeys(c) ==
  LET ls == { i \in 1..Len(ClassInit(c)) : IsListType(ClassInit(c)[i].type) }
  IN IF ls = {} THEN {} ELSE { ClassInit(c)[CHOOSE i \in ls : \A j \in ls : i <= j].name }

OldText == << "o", "l", "d" >>

\* a block of one class, fresh or built with its first list parameter, and a
\* destination that does not exist or holds an earlier text
InitDoc ==
  /\ file \in { NoFile, FileWith(OldText) }
  /\ \E c \in Classes :
       \E m \in Mappings(c, ProbeKeys(c)) : InitBlock(c, ProbeKeys(c), m)

\* the signature order and the reverse of the order nml_output uses
SupplyOrders(ks) ==
  { SelectSeq([i \in 1..Len(NML_init) |-> NML_init[i].name], LAMBDA s : s \in ks),
    SelectSeq(Reverse(nml_output_order), LAMBDA s : s \in ks) }

\* A run builds one document.  The keyword arguments of the NML(...) call:
\* the required slots, at most one of them left out, at most MaxNone of them
\* None, and at most MaxOptional optional slots.
NextDoc ==
  \/ /\ ~doc.made
     /\ \E req \in { RequiredSlots } \cup { RequiredSlots \ {s} : s \in RequiredSlots },
           none \in KeySets(RequiredSlots, MaxNone),
           opt \in KeySets(OptionalSlots, MaxOptional) :
          /\ none \subseteq req
          /\ \E order \in SupplyOrders(req \cup opt) :
               NewNML([s \in req \cup opt |-> IF s \in none THEN "None" ELSE RefFor(s)], order)
  \/ WriteNml

SpecDoc == InitDoc /\ [][NextDoc]_vars

----------------------------------------------------------------------------
\* Rendering one parameter: str(block) after one set_attributes call

\* a str with an apostrophe, and one with a comma and a space
SampleApostrophe == StrV(<< "i", "t", "'", "s" >>)
SampleComma == StrV(<< "a", ",", " ", "b" >>)

\* the lists of 1..MaxLen sample items of a list type
SampleLists(type) == { ListV([i \in 1..n |-> SampleItem(type, i)]) : n \in 1..MaxLen }

\* values of the annotated type of a parameter, none of them None or empty
TypedSamples(type) ==
  CASE type = "str" -> {SampleStr, SampleApostrophe}
    [] type = "int" -> {IntV(500), IntV(-3)}
    [] type = "float" -> {FloatV(-100), FloatV(5)}
    [] type = "bool" -> {BoolV(TRUE), BoolV(FALSE)}
    [] type = "list_str" ->
         SampleLists(type) \cup {ListV(<< SampleApostrophe >>), ListV(<< SampleNames[1], SampleComma >>)}
    [] OTHER -> SampleLists(type)

\* the attributes after __str__ has run: no __str__ assigns to self or calls
\* anything but the two static helpers and str.join
str_self_emptied(c, a) == [k \in DOMAIN a |-> IF a[k].t = "list" THEN ListV(<< >>) ELSE a[k]]

str_self(c, a) == a

\* str(block)
StrBlock ==
  /\ attrs' = str_self(cls, attrs)
  /\ last' = [Outcome("__str__", block_str(cls, attrs).exc, "") EXCEPT
                !.val = block_str(cls, attrs).val, !.prev = << last.op, last.exc >>]
  /\ UNCHANGED << cls, keys, everSet, doc, supplied, file, handles, disk >>

\* a fresh block of one class; the run sets one declared parameter of it
InitStr ==
  /\ file = NoFile
  /\ \E c \in Classes : \E p \in Declared(c) : InitBlock(c, {p}, << >>)

\* one set_attributes call on the fresh block, and str(block) at any time
NextStr ==
  \/ /\ last.op = "__init__"
     /\ \E k \in keys : \E v \in TypedSamples(KeyType(cls, k)) :
          SetAttributes(<< [key |-> k, value |-> v] >>)
  \/ StrBlock

SpecStr == InitStr /\ [][NextStr]_vars

----------------------------------------------------------------------------
\* The static helpers of NMLBase, called on their own

\* the items of the lists passed to the helpers
HelperItems ==
  { BoolV(TRUE), BoolV(FALSE), None, IntV(1), FloatV(-100), SampleNames[1],
    SampleApostrophe, SampleComma }

\* the values passed to the helpers: None, single values and lists of at
\* most MaxLen items
HelperInputs ==
  HelperItems \cup UNION { { ListV(l) : l \in [1..n -> HelperItems] } : n \in 0..MaxLen }

\* NMLBase.fortran_bool_string(bool_input)
FortranBoolString(bool_input) ==
  /\ last' = [Outcome("fortran_bool_string", "none", "") EXCEPT
                !.args = << bool_input >>, !.val = fortran_bool_string(bool_input)]
  /\ UNCHANGED << cls, keys, attrs, everSet, doc, supplied, file, handles, disk >>

\* NMLBase.comma_sep_list(list_input, inverted_commas)
CommaSepList(list_input, inverted_commas) ==
  /\ last' = [Outcome("comma_sep_list", comma_sep_list(list_input, inverted_commas).exc, "")
                EXCEPT !.args = << list_input, BoolV(inverted_commas) >>,
                       !.val = comma_sep_list(list_input, inverted_commas).val]
  /\ UNCHANGED << cls, keys, attrs, everSet, doc, supplied, file, handles, disk >>

\* the module is imported; no block and no document exists
InitFn ==
  /\ cls = "NMLBase"
  /\ keys = {}
  /\ attrs = << >>
  /\ everSet = {}
  /\ doc = NoDoc
  /\ supplied = << >>
  /\ file = NoFile
  /\ handles = 0
  /\ disk = << >>
  /\ last = Outcome("import", "none", "")

NextFn ==
  \/ \E x \in HelperInputs : FortranBoolString(x)
  \/ \E x \in HelperInputs : \E q \in BOOLEAN : CommaSepList(x, q)

SpecFn == InitFn /\ [][NextFn]_vars

----------------------------------------------------------------------------
\* A document built from plain strings

\* no block exists; the destination does not exist or holds an earlier text
InitText ==
  /\ cls = "NMLBase"
  /\ keys = {}
  /\ attrs = << >>
  /\ everSet = {}
  /\ doc = NoDoc
  /\ supplied = << >>
  /\ file \in { NoFile, FileWith(OldText) }
  /\ handles = 0
  /\ disk = << >>
  /\ last = Outcome("import", "none", "")

\* NML(setup="setup", ...): every required slot and at most MaxOptional
\* optional slots, each given as a plain string; then write_nml
NextText ==
  \/ /\ ~doc.made
     /\ \E opt \in KeySets(OptionalSlots, MaxOptional) :
          \E order \in SupplyOrders(RequiredSlots \cup opt) :
            NewNML([s \in RequiredSlots \cup opt |-> "text"], order)
  \/ WriteNml

SpecText == InitText /\ [][NextText]_vars

----------------------------------------------------------------------------
\* Reading a rendered text

RECURSIVE SplitLines(_, _, _)
\* text.split("\n"): cur is the line being read, done the lines before it
SplitLines(done, cur, text) ==
  IF text = << >> THEN Append(done, cur)
  ELSE IF Head(text) = "\n" THEN SplitLines(Append(done, cur), << >>, Tail(text))
  ELSE SplitLines(done, Append(cur, Head(text)), Tail(text))

Lines(text) == SplitLines(<< >>, << >>, text)

\* a line of the shape "   <name> = ..."
IsParamLine(line) ==
  /\ Len(line) >= 7
  /\ SubSeq(line, 1, 3) = Indent
  /\ SubSeq(line, 5, 7) = Equals

\* the parameter lines of a text, in order
ParamLines(text) == SelectSeq(Lines(text), IsParamLine)

\* the names the parameter lines of a text start with, in order
LineNames(text) ==
  LET pl == ParamLines(text) IN [i \in 1..Len(pl) |-> pl[i][4]]

\* the lines of a text for parameter p
LinesFor(text, p) ==
  LET pl == ParamLines(text) IN { i \in 1..Len(pl) : pl[i][4] = p }

\* the block names, each the token after an "&" that starts a line
BlockNames(text) ==
  LET hs == SelectSeq(Lines(text), LAMBDA l : Len(l) >= 2 /\ l[1] = "&")
  IN [i \in 1..Len(hs) |-> hs[i][2]]

\* str(block) for the block under construction
Rendered == block_str(cls, attrs)

NeverSet == Declared(cls) \ everSet

----------------------------------------------------------------------------
\* Claims

\* C1 as stated: a declared parameter that was never set (not passed to the
\* constructor, not in any set_attributes mapping) has no line in str(block).
C1_NeverSetHasNoLine ==
  LET r == Rendered
  IN r.exc = "none" =>
       LET names == LineNames(r.val.s)
       IN \A p \in NeverSet : \A i \in 1..Len(names) : names[i] # p

\* C1 amended: a declared parameter that was never set has no line in
\* str(block), except csv_outlet_allinone of NMLOutput, whose constructor
\* default is False: never set, it has the one line
\* "   csv_outlet_allinone = .false.".
C1_NeverSetNoneHasNoLine ==
  LET r == Rendered
  IN r.exc = "none" =>
       LET pl == ParamLines(r.val.s)
       IN \A p \in NeverSet :
            IF cls = "NMLOutput" /\ p = "csv_outlet_allinone"
            THEN \E i \in 1..Len(pl) :
                   /\ \A j \in 1..Len(pl) : pl[j][4] = p <=> j = i
                   /\ pl[i] = Indent \o << p >> \o Equals
                                \o << ".", "f", "a", "l", "s", "e", "." >>
            ELSE \A i \in 1..Len(pl) : pl[i][4] # p

\* C1 witness: set_attributes has set a parameter, which is rendered, and left
\* another declared parameter never set.
C1_Witness ==
  /\ last.op = "set_attributes"
  /\ Len(last.base) >= 1
  /\ Rendered.exc = "none"
  /\ \E p \in Declared(cls) \cap everSet : LinesFor(Rendered.val.s, p) # {}
  /\ NeverSet \cap keys # {}

\* C2 as stated: a list-typed declared parameter holding the empty list
\* renders as it does when it holds None.
C2_EmptyListAsNone ==
  \A p \in Declared(cls) :
    (IsListType(DeclType(cls, p)) /\ attrs[p] = ListV(<< >>)) =>
      Rendered = block_str(cls, [attrs EXCEPT ![p] = None])

\* C3 as stated: a write_nml that fails in open() or while rendering leaves
\* the destination as it was.
C3_FailedWriteLeavesDestination ==
  [][(last'.op = "write_nml" /\ last'.at \in {"open", "nml_output"}) => file' = file]_vars

\* the order of the blocks the claims C4 and C5 state
CanonicalOrder ==
  << "setup", "mixing", "wq_setup", "morphometry", "time", "output",
     "init_profiles", "light", "bird_model", "sediment", "ice_snow",
     "meteorology", "inflows", "outflows" >>

\* the slots of the document that are not None, in the stated order
Included == SelectSeq(CanonicalOrder, LAMBDA s : doc.slot[s] # "None")

Written == last.op = "write_nml" /\ last.exc = "none"

C5_OneNewlinePerBlock ==
  Written =>
    /\ file.text =
         IF Included = << >> THEN << >>
         ELSE Join(NL, [i \in 1..Len(Included) |->
                          SlotStr(doc.slot[Included[i]], Included[i]).val.s]) \o NL
    /\ Included = << "setup", "morphometry", "time", "init_profiles" >> =>
         file.text = SlotStr(doc.slot["setup"], "setup").val.s \o NL
                     \o SlotStr(doc.slot["morphometry"], "morphometry").val.s \o NL
                     \o SlotStr(doc.slot["time"], "time").val.s \o NL
                     \o SlotStr(doc.slot["init_profiles"], "init_profiles").val.s \o NL

\* C5 witness: a document of exactly the four required blocks has been
\* written.
C5_Witness ==
  /\ Written
  /\ Included = << "setup", "morphometry", "time", "init_profiles" >>

\* C6 as stated: no document exists whose setup, morphometry, time or
\* init_profiles slot is None.
C6_RequiredBlocksPresent ==
  doc.made => \A s \in RequiredSlots : doc.slot[s] # "None"

\* C7 as stated: str(block) is "&" + block name + newline + the parameter
\* lines joined by newline + newline + "/".
C7_BlockFrame ==
  Rendered.exc = "none" =>
    Rendered.val.s =
      << "&", ClassStr(cls).header[2], "\n" >>
      \o Join(NL, ParamLines(Rendered.val.s))
      \o << "\n", "/" >>

\* C8 as stated: str(block) has exactly one parameter line for each declared
\* parameter whose value is not None, and no other parameter line.
C8_OneLinePerParameter ==
  Rendered.exc = "none" =>
    /\ \A p \in Declared(cls) :
         attrs[p] # None => Cardinality(LinesFor(Rendered.val.s, p)) = 1
    /\ Len(ParamLines(Rendered.val.s)) = Cardinality({ p \in Declared(cls) : attrs[p] # None })

C10_OverrideWins ==
  (last.op = "get_nml_attributes" /\ last.at # "return None") =>
    /\ last.exc = "none"
    /\ \A i \in 1..Len(last.custom) : last.block[last.custom[i].key] = last.custom[i].value
    /\ \A i \in 1..Len(last.base) :
         (\A j \in 1..Len(last.custom) : last.custom[j].key # last.base[i].key)
           => last.block[last.base[i].key] = last.base[i].value

----------------------------------------------------------------------------
\* Claims on set_attributes, rendering, the helpers and write_nml

BoolToken(v) == IF v.b THEN FortranTrue ELSE FortranFalse

\* C13: fortran_bool_string returns '.true.' for True, '.false.' for False and
\* None for None, and for a list of booleans the list of the tokens of its
\* elements, in order; it does not raise.
C13_BoolTokens ==
  last.op = "fortran_bool_string" =>
    /\ last.exc = "none"
    /\ last.args[1].t = "bool" => last.val = BoolToken(last.args[1])
    /\ last.args[1] = None => last.val = None
    /\ (last.args[1].t = "list" /\ \A i \in 1..Len(last.args[1].l) : last.args[1].l[i].t = "bool")
         => /\ last.val.t = "list"
            /\ Len(last.val.l) = Len(last.args[1].l)
            /\ \A i \in 1..Len(last.args[1].l) : last.val.l[i] = BoolToken(last.args[1].l[i])

\* C13 witness: fortran_bool_string was given [True, False] and returned
\* ['.true.', '.false.'].
C13_Witness ==
  /\ last.op = "fortran_bool_string"
  /\ last.args = << ListV(<< BoolV(TRUE), BoolV(FALSE) >>) >>
  /\ last.val = ListV(<< FortranTrue, FortranFalse >>)

\* C14: comma_sep_list returns None for the empty list and for None, with
\* either value of inverted_commas, and does not raise.
C14_EmptyAndNoneGiveNone ==
  (last.op = "comma_sep_list" /\ last.args[1] \in { None, ListV(<< >>) }) =>
    (last.exc = "none" /\ last.val = None)

\* C14 witness: comma_sep_list was given the empty list with inverted_commas
\* True.
C14_Witness ==
  /\ last.op = "comma_sep_list"
  /\ last.args = << ListV(<< >>), BoolV(TRUE) >>
  /\ last.val = None

RECURSIVE SplitCommaSpace(_, _, _)
\* text.split(", "): cur is the piece being read, done the pieces before it
SplitCommaSpace(done, cur, text) ==
  IF text = << >> THEN Append(done, cur)
  ELSE IF Len(text) >= 2 /\ text[1] = "," /\ text[2] = " "
    THEN SplitCommaSpace(Append(done, cur), << >>, SubSeq(text, 3, Len(text)))
  ELSE SplitCommaSpace(done, Append(cur, Head(text)), Tail(text))

RECURSIVE StripQuotes(_)
\* piece.strip("'")
StripQuotes(piece) ==
  IF piece # << >> /\ Head(piece) = "'" THEN StripQuotes(Tail(piece))
  ELSE IF piece # << >> /\ piece[Len(piece)] = "'"
    THEN StripQuotes(SubSeq(piece, 1, Len(piece) - 1))
  ELSE piece

\* the pieces of a joined text, with the quotes stripped where q
Pieces(text, q) ==
  LET ps == SplitCommaSpace(<< >>, << >>, text)
  IN [i \in 1..Len(ps) |-> IF q THEN StripQuotes(ps[i]) ELSE ps[i]]

\* C15 as stated: for a non-empty list, splitting the text comma_sep_list
\* returns on ", " and, with inverted_commas, stripping the single quotes of
\* each piece gives back the elements of the list, in order and in number.
C15_JoinSplitRoundTrip ==
  (last.op = "comma_sep_list" /\ last.args[1].t = "list" /\ last.args[1].l # << >>) =>
    /\ last.exc = "none"
    /\ last.val.t = "str"
    /\ Pieces(last.val.s, last.args[2].b)
         = [i \in 1..Len(last.args[1].l) |-> PyStr(last.args[1].l[i])]

\* the text of one list element by the rule of its type: a boolean as its
\* token, a string in single quotes, a number as str() gives it
ElementText(v) ==
  CASE v.t = "bool" -> BoolToken(v).s
    [] v.t = "str" -> << "'" >> \o v.s \o << "'" >>
    [] OTHER -> PyStr(v)

\* the line of parameter p for a list value l, as the claims state it
ListLine(p, l) ==
  Indent \o << p >> \o Equals
  \o Join(<< ",", " " >>, [j \in 1..Len(l) |-> ElementText(l[j])])

\* C16 as stated: a declared list-typed parameter holding a non-empty list
\* has the line "   name = e1, e2, ..." of its elements, each formatted by the
\* rule of its type and joined by ", ", without brackets.
C16_ListsJoined ==
  LET r == Rendered
  IN r.exc = "none" =>
       \A p \in Declared(cls) :
         (IsListType(DeclType(cls, p)) /\ attrs[p].t = "list" /\ attrs[p].l # << >>) =>
           \E i \in 1..Len(ParamLines(r.val.s)) :
             ParamLines(r.val.s)[i] = ListLine(p, attrs[p].l)

\* C17 as stated: a string-typed parameter holding the string v has the line
\* "   name = 'v'", and a string-list parameter holding a non-empty list of
\* strings has the line of its elements, each in single quotes; this for
\* every string, one with an apostrophe included.
C17_StringsSingleQuoted ==
  LET r == Rendered
  IN r.exc = "none" =>
       \A p \in Declared(cls) :
         /\ (DeclType(cls, p) = "str" /\ attrs[p].t = "str") =>
              \E i \in 1..Len(ParamLines(r.val.s)) :
                ParamLines(r.val.s)[i]
                  = Indent \o << p >> \o Equals \o << "'" >> \o attrs[p].s \o << "'" >>
         /\ (DeclType(cls, p) = "list_str" /\ attrs[p].t = "list" /\ attrs[p].l # << >>
               /\ \A j \in 1..Len(attrs[p].l) : attrs[p].l[j].t = "str") =>
              \E i \in 1..Len(ParamLines(r.val.s)) :
                ParamLines(r.val.s)[i] = ListLine(p, attrs[p].l)

\* a slot's text framed as the claim C18 states it: "&" and the block name, a
\* newline, the text, a newline, "/" and a newline
Framed(s) ==
  << "&", ClassStr(SlotClass(s)).header[2], "\n" >> \o Body(s) \o << "\n", "/", "\n" >>

\* C18 as stated: for a document whose slots hold plain strings write_nml
\* writes every included slot framed, in the order of the document; for the
\* four required slots "&glm_setup\n" + s + "\n/\n&morphometry\n" + m
\* + "\n/\n&time\n" + t + "\n/\n&init_profiles\n" + i + "\n/\n".
C18_DocumentFramesStrings ==
  (Written /\ \A s \in Slots : doc.slot[s] \in {"None", "text"}) =>
    /\ file.text = Flatten([i \in 1..Len(Included) |-> Framed(Included[i])])
    /\ Included = << "setup", "morphometry", "time", "init_profiles" >> =>
         file.text = << "&", "glm_setup", "\n", "setup", "\n", "/", "\n",
                        "&", "morphometry", "\n", "morphometry", "\n", "/", "\n",
                        "&", "time", "\n", "time", "\n", "/", "\n",
                        "&", "init_profiles", "\n", "init_profiles", "\n", "/", "\n" >>

\* C19: when write_nml has returned or raised, the handle it opened is
\* closed; no handle is ever left open, and a failed open leaves none.
C19_HandleClosed == handles = 0

\* C19 witness: write_nml raised while writing, after a write_nml that raised
\* while rendering or opening, or that succeeded.
C19_Witness ==
  /\ last.op = "write_nml"
  /\ last.exc = "OSError"
  /\ last.at = "write"
  /\ last.prev[1] = "write_nml"
  /\ handles = 0

\* C19 witness of the rendering failure
C19_RenderFailureReached ==
  /\ last.op = "write_nml"
  /\ last.exc = "TypeError"
  /\ last.at = "nml_output"

\* C20: write_nml leaves every slot of the document and every attribute of
\* the block as they were, whether it succeeds or fails; a write_nml that
\* succeeds leaves in the destination the text of the document once,
\* whatever the destination held and however an earlier call ended.
C20_WriteLeavesDocument ==
  [][last'.op = "write_nml" =>
       /\ doc' = doc
       /\ attrs' = attrs
       /\ last'.exc = "none" => file'.text = nml_output(doc).val.s]_vars

\* C20 witness: write_nml succeeded on a document holding a populated block
\* right after a write_nml that failed part way through the write.
C20_Witness ==
  /\ Written
  /\ last.prev = << "write_nml", "OSError" >>
  /\ \E s \in Slots : doc.slot[s] = "blk"
  /\ everSet # {}
  /\ file.text = nml_output(doc).val.s
  /\ file.text # << >>

\* C20 witness of the second call after a success
C20_RewriteReached ==
  /\ Written
  /\ last.prev = << "write_nml", "none" >>


----------------------------------------------------------------------------
\* The classes around the NML writer: glmpy.json and glmpy.glm_json
\* (JSONToNML), glmpy.dimensions, glmpy.inflows.  A run constructs one object,
\* then calls its methods.

\* glmpy.json.JSONToNML.__init__: stores both arguments as given
JSONToNML_init(json_file, nml_file) ==
  Returned([json_file |-> json_file, nml_file |-> nml_file])

\* glmpy.glm_json.JSONToNML.__init__
glm_json_JSONToNML_init(json_file, nml_file) ==
  IF json_file.t # "str" /\ json_file.t # "dict" THEN Raised("TypeError")
  ELSE IF nml_file.t # "str" THEN Raised("TypeError")
  ELSE Returned([json_file |-> json_file, nml_file |-> nml_file])

\* obj = c(*args), where r is what c.__init__ does with args: the object
\* exists when __init__ returns, with the __dict__ that __init__ built
Construct(c, args, r) ==
  /\ last.op = "import"
  /\ cls' = c
  /\ attrs' = IF r.exc = "none" THEN r.val ELSE attrs
  /\ last' = [Outcome(c, r.exc, IF "msg" \in DOMAIN r THEN r.msg ELSE "") EXCEPT !.args = args]
  /\ UNCHANGED << keys, everSet, doc, supplied, file, handles, disk >>

\* obj.method(*args), where r is what the method does and self is the
\* object's __dict__ when the call ends
Call(c, method, args, r, self) ==
  /\ cls = c
  /\ DOMAIN attrs # {}
  /\ attrs' = self
  /\ last' = [Outcome(method, r.exc, "") EXCEPT !.args = args, !.val = r.val]
  /\ UNCHANGED << cls, keys, everSet, doc, supplied, file, handles, disk >>

----------------------------------------------------------------------------
\* glmpy.dimensions.  A Python float is held as the exact fraction n/d, d > 0.

Q(n, d) ==
  LET RECURSIVE gcd(_, _)
      gcd(a, b) == IF b = 0 THEN a ELSE gcd(b, a % b)
      g == gcd(IF n < 0 THEN -n ELSE n, d)
  IN [n |-> n \div g, d |-> d \div g]

\* a + b, a - b, a * b and a / b on floats (b is not zero for "/")
float_op(op, a, b) ==
  CASE op = "+" -> Q(a.n * b.d + b.n * a.d, a.d * b.d)
    [] op = "-" -> Q(a.n * b.d - b.n * a.d, a.d * b.d)
    [] op = "*" -> Q(a.n * b.n, a.d * b.d)
    [] op = "/" -> IF b.n > 0 THEN Q(a.n * b.d, a.d * b.n) ELSE Q(-(a.n * b.d), -(a.d * b.n))

\* a > b on floats
float_gt(a, b) == a.n * b.d > b.n * a.d

\* int(x) of a float: the fraction is dropped
float_int(x) == IF x.n >= 0 THEN x.n \div x.d ELSE -((-x.n) \div x.d)

\* float(v): whether it returns, and what
float_ok(v) == v.t \in { "int", "float", "bool" }
float(v) ==
  CASE v.t = "int" -> Q(v.n, 1)
    [] v.t = "float" -> Q(v.tenths, 10)
    [] v.t = "bool" -> Q(IF v.b THEN 1 ELSE 0, 1)

\* SimpleTruncatedPyramidWaterBody.__init__.  A failed assert is caught and
\* reported with print; nothing is raised and the else branch, which sets
\* base_length and base_width, is skipped.
SimpleTruncatedPyramidWaterBody_init(height, surface_width, surface_length, side_slope) ==
  IF ~(\A v \in { height, surface_width, surface_length, side_slope } : float_ok(v))
  THEN Raised("ValueError")
  ELSE LET self == [height |-> float(height), surface_width |-> float(surface_width),
                    surface_length |-> float(surface_length),
                    side_slope |-> float(side_slope)]
       IN IF self.side_slope.n = 0 THEN Raised("ZeroDivisionError")
          ELSE LET twice == float_op("*", float_op("/", self.height, self.side_slope), Q(2, 1))
               IN IF ~float_gt(self.surface_length, twice) THEN Returned(self)
                  ELSE IF ~float_gt(self.surface_width, twice) THEN Returned(self)
                  ELSE Returned(self @@
                         [base_length |-> float_op("-", self.surface_length, twice),
                          base_width |-> float_op("-", self.surface_width, twice)])

\* SimpleTruncatedPyramidWaterBody.get_volumes
get_volumes(self) ==
  IF "base_length" \notin DOMAIN self THEN Raised("AttributeError")
  \* for i in range(0, int(self.height) + 1)
  ELSE Returned(ListV([k \in 1..(float_int(self.height) + 1) |->
         LET i == Q(k - 1, 1)
             s == self.side_slope
         IN float_op("+",
              float_op("+",
                float_op("*", float_op("*", self.base_length, self.base_width), i),
                float_op("*", float_op("*", i, i),
                         float_op("/", float_op("+", self.base_length, self.base_width), s))),
              float_op("/", float_op("*", Q(4, 1), float_op("*", i, float_op("*", i, i))),
                       float_op("*", Q(3, 1), float_op("*", s, s))))]))

\* SimpleTruncatedPyramidWaterBody.get_surface_areas
get_surface_areas(self) ==
  IF "base_width" \notin DOMAIN self THEN Raised("AttributeError")
  \* for i in range(0, int(self.height) + 1)
  ELSE Returned(ListV([k \in 1..(float_int(self.height) + 1) |->
         LET i == Q(k - 1, 1)
             s == self.side_slope
         IN float_op("*",
              float_op("+", self.base_width, float_op("/", float_op("*", Q(2, 1), i), s)),
              float_op("+", self.base_length, float_op("/", float_op("*", Q(2, 1), i), s)))]))

\* SimpleTruncatedPyramidWaterBody.get_heights:
\* list(range(0, -abs(int(self.height) + 1), -1))[::-1]
get_heights(self) ==
  LET k == float_int(self.height) + 1
      n == IF k < 0 THEN -k ELSE k
  IN Returned(ListV([j \in 1..n |-> IntV(j - n)]))

----------------------------------------------------------------------------
\* glmpy.inflows.  A DataFrame is its column names, the name of the column
\* that is its index ("" for the default index) and its rows; a Timestamp is
\* held as its number of hours.

\* a raise that is swallowed: the call returns an empty object
ValueError_swallowed(msg) == Returned(<< >>)

\* raise ValueError(msg)
ValueError(msg) == [exc |-> "ValueError", val |-> None, msg |-> msg]

DataFrame(columns, index, rows) ==
  [t |-> "DataFrame", columns |-> columns, index |-> index, rows |-> rows]

\* CatchmentRunoffInflows.__init__
CatchmentRunoffInflows_init(precip_col, catchment_area, date_time_col, runoff_coef, runoff_threshold, input_type, path_to_met_csv, met_data) ==
  IF input_type = "file" /\ path_to_met_csv = None
  THEN ValueError("path_to_met_csv cannot be None when input_type is 'file'.")
  ELSE IF input_type = "file" /\ path_to_met_csv \notin DOMAIN disk
  THEN Raised("FileNotFoundError")
  ELSE IF input_type = "dataframe" /\ met_data = None
  THEN ValueError("met_data cannot be None when input_type is 'dataframe'.")
  ELSE IF input_type \notin { "file", "dataframe" }
  THEN ValueError("Invalid input_type. Must be 'file' or 'dataframe'.")
  ELSE
  LET data == IF input_type = "file" THEN disk[path_to_met_csv] ELSE met_data
      has(col) == \E i \in 1..Len(data.columns) : data.columns[i] = col
  IN
  IF catchment_area.t \notin { "int", "float", "bool" }
  THEN ValueError("catchment_area must be numeric.")
  ELSE IF float_gt(Q(0, 1), float(catchment_area))
  THEN ValueError("catchment_area must be positive.")
  ELSE IF ~has(precip_col) THEN ValueError(precip_col \o " not in met_data columns.")
  ELSE IF ~has(date_time_col) THEN ValueError(date_time_col \o " not in met_data columns.")
  ELSE IF runoff_coef = None /\ runoff_threshold = None
  THEN ValueError("Either runoff_coef or runoff_threshold must be provided.")
  ELSE IF runoff_coef # None /\ runoff_threshold # None
  THEN ValueError("Only one of runoff_coef or runoff_threshold can be provided.")
  ELSE IF \E i \in 1..Len(data.rows) : data.rows[i][date_time_col].t # "int"
  THEN Raised("ValueError")                 \* pd.to_datetime
  ELSE IF Len(data.rows) < 2 THEN Raised("IndexError")   \* self.met_data.index[1]
  ELSE
  LET indexed == [i \in 1..Len(data.rows) |->
                    [index |-> data.rows[i][date_time_col].n,
                     value |-> float(data.rows[i][precip_col])]]
      time_diff == indexed[2].index - indexed[1].index
      \* self.met_data.resample("D").sum(): one row per day from the first
      \* day to the last, holding the sum of the day's readings
      RECURSIVE Sum(_)
      Sum(qs) == IF qs = << >> THEN Q(0, 1) ELSE float_op("+", Head(qs), Sum(Tail(qs)))
      day(r) == r.index \div 24
      resampled ==
        [k \in 1..(day(indexed[Len(indexed)]) - day(indexed[1]) + 1) |->
           [index |-> 24 * (day(indexed[1]) + k - 1),
            value |-> Sum([j \in 1..Len(indexed) |->
                             IF day(indexed[j]) = day(indexed[1]) + k - 1
                             THEN indexed[j].value ELSE Q(0, 1)])]]
      precip_data == IF time_diff = 1 THEN resampled ELSE indexed
      area == float(catchment_area)
      clip(q) == IF float_gt(Q(0, 1), q) THEN Q(0, 1) ELSE q
      self == [input_type |-> input_type, path_to_met_csv |-> path_to_met_csv,
               precip_col |-> precip_col, catchment_area |-> catchment_area,
               runoff_coef |-> runoff_coef, runoff_threshold |-> runoff_threshold,
               date_time_col |-> date_time_col,
               met_data |-> DataFrame(SelectSeq(data.columns, LAMBDA col : col # date_time_col),
                                      date_time_col, precip_data)]
      frame(flow) ==
        DataFrame(<< "flow" >>, "time",
                  [i \in 1..Len(precip_data) |->
                     [index |-> precip_data[i].index,
                      value |-> float_op("/", clip(flow[i]), Q(86400, 1))]])
  IN
  IF runoff_coef # None
  THEN IF runoff_coef.t \notin { "int", "float", "bool" }
       THEN ValueError("runoff_coef must be numeric.")
       ELSE Returned(self @@ [catchment_inflows |->
              frame([i \in 1..Len(precip_data) |->
                       float_op("*", float_op("*", precip_data[i].value, area),
                                float(runoff_coef))])])
  ELSE IF runoff_threshold.t \notin { "int", "float", "bool" }
       THEN ValueError("runoff_threshold must be numeric.")
       ELSE LET threshold == float_op("/", float(runoff_threshold), Q(1000, 1))
            IN Returned([self EXCEPT !.runoff_threshold = threshold] @@
                 [catchment_inflows |->
                    frame([i \in 1..Len(precip_data) |->
                             float_op("*", float_op("-", precip_data[i].value, threshold),
                                      area)])])

\* A run constructs one object.  The arguments are values of the annotated
\* types and values of other types: paths, a dict and non-strings for
\* JSONToNML; numbers and values float() rejects for the water body; for the
\* inflows, frames of three days of daily rain, of two days of hourly rain,
\* of one row, without a Rain column and with a date that does not parse.
NextObj ==
  LET foo == StrV(<< "f", "o", "o" >>)
      PathArgs ==
        { StrV(<< "c", "o", "n", "f", "i", "g", ".", "j", "s", "o", "n" >>),
          StrV(<< "s", "i", "m", ".", "n", "m", "l" >>), StrV(<< >>),
          IntV(123), FloatV(15), BoolV(TRUE), None, ListV(<< >>),
          [t |-> "dict", d |-> << >>],
          [t |-> "dict", d |-> << [key |-> "glm_setup", value |-> [t |-> "dict", d |-> << >>]] >>] }
      NumArgs ==
        { IntV(2), IntV(6), IntV(10), IntV(30), IntV(0), IntV(-3), FloatV(5), foo, None }
      RunoffArgs == { None, FloatV(5), IntV(10), IntV(-1), foo }
      row(d, r) == [Date |-> d, Rain |-> r]
      MetData ==
        { None,
          DataFrame(<< "Date", "Rain" >>, "",
            << row(IntV(0), FloatV(1)), row(IntV(24), IntV(0)), row(IntV(48), FloatV(2)) >>),
          DataFrame(<< "Date", "Rain" >>, "",
            << row(IntV(0), FloatV(1)), row(IntV(1), FloatV(2)), row(IntV(24), FloatV(3)) >>),
          DataFrame(<< "Date", "Rain" >>, "", << row(IntV(0), FloatV(1)) >>),
          DataFrame(<< "Date", "Snow" >>, "",
            << [Date |-> IntV(0), Snow |-> FloatV(1)], [Date |-> IntV(24), Snow |-> FloatV(1)] >>),
          DataFrame(<< "Date", "Rain" >>, "", << row(foo, FloatV(1)), row(IntV(24), FloatV(1)) >>) }
  IN
  \/ /\ last.op = "import"
     /\ \/ \E json_file \in PathArgs, nml_file \in PathArgs :
             \/ Construct("glmpy.json.JSONToNML", << json_file, nml_file >>,
                          JSONToNML_init(json_file, nml_file))
             \/ Construct("glmpy.glm_json.JSONToNML", << json_file, nml_file >>,
                          glm_json_JSONToNML_init(json_file, nml_file))
        \/ \E h \in NumArgs, w \in NumArgs, l \in NumArgs, s \in NumArgs :
             Construct("SimpleTruncatedPyramidWaterBody", << h, w, l, s >>,
                       SimpleTruncatedPyramidWaterBody_init(h, w, l, s))
        \/ \E precip_col \in { "Rain", "Snow" }, catchment_area \in RunoffArgs,
              runoff_coef \in RunoffArgs, runoff_threshold \in RunoffArgs,
              input_type \in { "file", "dataframe", "foo" },
              path_to_met_csv \in { None, StrV(<< "m", "e", "t", ".", "c", "s", "v" >>) },
              met_data \in MetData :
             Construct("CatchmentRunoffInflows",
                       << precip_col, catchment_area, "Date", runoff_coef, runoff_threshold,
                          input_type, path_to_met_csv, met_data >>,
                       CatchmentRunoffInflows_init(precip_col, catchment_area, "Date",
                                                   runoff_coef, runoff_threshold, input_type,
                                                   path_to_met_csv, met_data))
  \/ Call("SimpleTruncatedPyramidWaterBody", "get_volumes", << >>, get_volumes(attrs), attrs)
  \/ Call("SimpleTruncatedPyramidWaterBody", "get_surface_areas", << >>,
          get_surface_areas(attrs), attrs)
  \/ Call("SimpleTruncatedPyramidWaterBody", "get_heights", << >>, get_heights(attrs), attrs)
  \/ Call("CatchmentRunoffInflows", "get_inflows", << >>,
          Returned(attrs.catchment_inflows), attrs)

SpecObj == InitFn /\ [][NextObj]_vars

----------------------------------------------------------------------------
\* glmpy.outflows.  A datetime string is held as the format it is written in
\* ("%Y-%m-%d", "%Y-%m-%d %H:%M:%S", or "" for a string in neither) and the
\* hour it names, counted from one fixed midnight.

DateStr(fmt, h) == [t |-> "str", fmt |-> fmt, h |-> h]

\* datetime.strptime(dt_string, fmt): the datetime, or ValueError
strptime(dt_string, fmt) ==
  IF dt_string.fmt = fmt THEN Returned(dt_string.h) ELSE Raised("ValueError")

\* CustomOutflows.is_valid_datetime
is_valid_datetime(dt_string) ==
  LET dt_formats == << "%Y-%m-%d %H:%M:%S", "%Y-%m-%d" >>
  IN \E i \in 1..Len(dt_formats) : strptime(dt_string, dt_formats[i]).exc = "none"

\* CustomOutflows.is_valid_datetime_order: both strings are parsed with the
\* same format; a format that fails on either string is skipped
is_valid_datetime_order(start_dt_string, end_dt_string) ==
  LET dt_formats == << "%Y-%m-%d %H:%M:%S", "%Y-%m-%d" >>
  IN \E i \in 1..Len(dt_formats) :
    LET a == strptime(start_dt_string, dt_formats[i])
        b == strptime(end_dt_string, dt_formats[i])
    IN a.exc = "none" /\ b.exc = "none" /\ a.val < b.val

\* CustomOutflows.is_within_date_range
is_within_date_range(dt_string, start_dt_string, end_dt_string) ==
  LET dt_formats == << "%Y-%m-%d %H:%M:%S", "%Y-%m-%d" >>
  IN \E i \in 1..Len(dt_formats) :
    LET a == strptime(start_dt_string, dt_formats[i])
        x == strptime(dt_string, dt_formats[i])
        b == strptime(end_dt_string, dt_formats[i])
    IN a.exc = "none" /\ x.exc = "none" /\ b.exc = "none" /\ a.val <= x.val /\ x.val <= b.val

\* CustomOutflows.to_datetime_format, the second definition of that name in
\* the class body (from_format "%Y-%m-%d"), which replaces the first
to_datetime_format(dt_string) ==
  IF strptime(dt_string, "%Y-%m-%d").exc = "none"
  THEN DateStr("%Y-%m-%d %H:%M:%S", dt_string.h)
  ELSE dt_string

\* CustomOutflows.__init__
CustomOutflows_init(start_datetime, end_datetime, frequency, base_outflow) ==
  IF start_datetime.t # "str" THEN ValueError("start_datetime must be a string")
  ELSE IF end_datetime.t # "str" THEN ValueError("end_datetime must be a string")
  ELSE IF ~is_valid_datetime(start_datetime) THEN ValueError("not a valid datetime string")
  ELSE IF ~is_valid_datetime(end_datetime) THEN ValueError("not a valid datetime string")
  ELSE IF ~is_valid_datetime_order(start_datetime, end_datetime)
  THEN ValueError("start_datetime must occur before end_datetime")
  ELSE IF frequency \notin { "daily", "hourly" }
  THEN ValueError("frequency must be either daily or hourly")
  ELSE IF ~float_ok(base_outflow) THEN ValueError("base_outflow must be numeric")
  ELSE IF float_gt(Q(0, 1), float(base_outflow))
  THEN ValueError("base_outflow must be a positive value")
  ELSE
  LET start == to_datetime_format(start_datetime)
      end == to_datetime_format(end_datetime)
      hours == IF frequency = "daily" THEN 24 ELSE 1
      num_seconds == 3600 * hours
      flow == float_op("/", float(base_outflow), Q(num_seconds, 1))
  IN Returned([start_datetime |-> start, end_datetime |-> end, frequency |-> frequency,
               base_outflow |-> base_outflow, num_seconds |-> num_seconds,
               custom_outflows |->
                 \* pd.date_range(start, end, freq)
                 DataFrame(<< "time", "flow" >>, "",
                           [k \in 1..((end.h - start.h) \div hours + 1) |->
                              [time |-> start.h + (k - 1) * hours, flow |-> flow]])])

\* a raise that comes after self.custom_outflows.set_index("time")
Raise_indexed(self, msg) ==
  ValueError(msg) @@ [self |-> [self EXCEPT !.custom_outflows.index = "time"]]

\* a raise in a method of the object: the method ends and self is as the
\* statements before the raise left it
Raise(self, msg) == ValueError(msg) @@ [self |-> self]

\* a slice that leaves out its upper end
loc_open(rows, from, to) == { i \in 1..Len(rows) : from <= rows[i].time /\ rows[i].time < to }

\* the rows df.loc[from : to] selects in a frame indexed by time: both ends
\* are included
loc(rows, from, to) == { i \in 1..Len(rows) : from <= rows[i].time /\ rows[i].time <= to }

\* CustomOutflows.set_discrete_outflows.  pd.to_datetime of a Series of
\* strings in two formats parses each of them or raises ValueError, depending
\* on the pandas release: parses_mixed says which.
set_discrete_outflows(self, outflows_dict, parses_mixed) ==
  LET items == outflows_dict.d
      all(P(_)) == \A i \in 1..Len(items) : P(items[i])
      rows == self.custom_outflows.rows
      RECURSIVE set_at(_, _)
      \* for key, value in outflows_dict.items():
      \*     self.custom_outflows.at[pd.to_datetime(key), "flow"] = value / self.num_seconds
      set_at(df, its) ==
        IF its = << >> THEN df
        ELSE set_at([i \in 1..Len(df) |->
                       IF i \in loc(df, Head(its).key.h, Head(its).key.h)
                       THEN [df[i] EXCEPT !.flow = float_op("/", float(Head(its).value),
                                                            Q(self.num_seconds, 1))]
                       ELSE df[i]],
                    Tail(its))
  IN
  IF outflows_dict.t # "dict" THEN Raise(self, "outflows_dict must be a dictionary")
  ELSE IF ~all(LAMBDA it : it.key.t = "str")
  THEN Raise(self, "outflows_dict.keys() must be strings")
  ELSE IF ~all(LAMBDA it : is_valid_datetime(it.key))
  THEN Raise(self, "outflows_dict keys must be in either '%Y-%m-%d' or '%Y-%m-%d %H:%M:%S' format.")
  ELSE IF ~all(LAMBDA it : is_within_date_range(to_datetime_format(it.key),
                                                self.start_datetime, self.end_datetime))
  THEN Raise(self, "outflows_dict keys must be within start_datetime and end_datetime.")
  ELSE IF ~parses_mixed /\ \E i, j \in 1..Len(items) : items[i].key.fmt # items[j].key.fmt
  THEN Raise(self, "")
  ELSE IF ~all(LAMBDA it : \E i \in 1..Len(rows) : rows[i].time = it.key.h)
  THEN Raise(self, "One or more outflows_dict.keys() does not exist in the timeseries")
  ELSE IF ~all(LAMBDA it : float_ok(it.value))
  THEN Raise(self, "outflows_dict.values() must be numeric")
  ELSE IF ~all(LAMBDA it : float_gt(float(it.value), Q(0, 1)))
  THEN Raise(self, "outflows_dict.values() must be positive.")
  ELSE Returned(None) @@
       [self |-> [k \in DOMAIN self \cup { "outflows_dict" } |->
                    IF k = "outflows_dict" THEN outflows_dict
                    ELSE IF k = "custom_outflows"
                    THEN DataFrame(<< "time", "flow" >>, "", set_at(rows, items))
                    ELSE self[k]]]

\* CustomOutflows.set_continuous_outflows
set_continuous_outflows(self, from_datetime, to_datetime, continuous_outflow) ==
  LET rows == self.custom_outflows.rows
      given == [from_datetime |-> from_datetime, to_datetime |-> to_datetime,
                continuous_outflow |-> continuous_outflow]
  IN
  IF from_datetime.t # "str" THEN Raise(self, "from_datetime must be a string")
  ELSE IF to_datetime.t # "str" THEN Raise(self, "to_datetime must be a string")
  ELSE IF ~is_valid_datetime(from_datetime) THEN Raise(self, "not a valid datetime string")
  ELSE IF ~is_valid_datetime(to_datetime) THEN Raise(self, "not a valid datetime string")
  ELSE IF ~float_ok(continuous_outflow) THEN Raise(self, "continuous_outflow must be numeric")
  ELSE IF float_gt(Q(0, 1), float(continuous_outflow))
  THEN Raise(self, "continuous_outflow must be a positive value")
  ELSE Returned(None) @@
       [self |-> [k \in DOMAIN self \cup DOMAIN given |->
                    IF k \in DOMAIN given THEN given[k]
                    ELSE IF k = "custom_outflows"
                    THEN DataFrame(<< "time", "flow" >>, "",
                           [i \in 1..Len(rows) |->
                              IF i \in loc(rows, from_datetime.h, to_datetime.h)
                              THEN [rows[i] EXCEPT !.flow =
                                      float_op("/", float(continuous_outflow),
                                               Q(self.num_seconds, 1))]
                              ELSE rows[i]])
                    ELSE self[k]]]

\* the most items a dict passed to set_discrete_outflows has
MaxItems == 2

\* A run constructs one CustomOutflows object and calls its setters any
\* number of times.  Datetime strings: midnight of the first day and of the
\* day after, 01:00 and 02:00 of the first day, the third day, a string in
\* neither format and a number.  The dicts have items that are valid on
\* both grids, followed by one item with any key or any value.
NextOut ==
  LET foo == StrV(<< "f", "o", "o" >>)
      d0 == DateStr("%Y-%m-%d", 0)
      d1 == DateStr("%Y-%m-%d", 24)
      t0 == DateStr("%Y-%m-%d %H:%M:%S", 0)
      t1 == DateStr("%Y-%m-%d %H:%M:%S", 24)
      t2 == DateStr("%Y-%m-%d %H:%M:%S", 2)
      Ends == { d0, d1, t0, t1, DateStr("", 0), IntV(0) }
      t01 == DateStr("%Y-%m-%d %H:%M:%S", 1)
      Keys == { d0, t1, t01, DateStr("%Y-%m-%d", 48), DateStr("", 0), IntV(0) }
      Froms == { d0, t01, DateStr("", 0), IntV(0) }
      Tos == { t1, d0, DateStr("", 0), IntV(0) }
      Values == { IntV(10), IntV(0), IntV(-1), foo }
      AnyItem == { [key |-> k, value |-> IntV(10)] : k \in Keys } \cup
                 { [key |-> d0, value |-> v] : v \in Values }
      Valid == { [key |-> d0, value |-> FloatV(5)] }
      RECURSIVE Dicts(_)
      Dicts(n) == IF n = 0 THEN { << >> }
                  ELSE IF n = 1 THEN { << it >> : it \in AnyItem }
                  ELSE { << it >> \o d : it \in Valid, d \in Dicts(n - 1) }
      mixed(d) == \E i, j \in 1..Len(d) : d[i].key.t = "str" /\ d[j].key.t = "str"
                                           /\ d[i].key.fmt # d[j].key.fmt
  IN
  \/ /\ last.op = "import"
     /\ \/ \E start \in Ends, end \in Ends, base_outflow \in { IntV(10), IntV(-1), foo } :
             Construct("CustomOutflows", << start, end, "daily", base_outflow >>,
                       CustomOutflows_init(start, end, "daily", base_outflow))
        \/ \E frequency \in { "hourly", "weekly" } :
             Construct("CustomOutflows", << t0, t2, frequency, IntV(10) >>,
                       CustomOutflows_init(t0, t2, frequency, IntV(10)))
  \/ /\ cls = "CustomOutflows"
     /\ DOMAIN attrs # {}
     /\ \/ \E n \in 0..MaxItems : \E d \in Dicts(n) :
             \E parses_mixed \in IF mixed(d) THEN BOOLEAN ELSE { TRUE } :
               LET r == set_discrete_outflows(attrs, [t |-> "dict", d |-> d], parses_mixed)
               IN Call("CustomOutflows", "set_discrete_outflows",
                       << [t |-> "dict", d |-> d] >>, r, r.self)
        \/ LET r == set_discrete_outflows(attrs, IntV(0), TRUE)
           IN Call("CustomOutflows", "set_discrete_outflows", << IntV(0) >>, r, r.self)
        \/ \E from \in Froms, to \in Tos, v \in Values :
             /\ v = IntV(10) \/ (from = d0 /\ to = t1)
             /\ LET r == set_continuous_outflows(attrs, from, to, v)
                IN Call("CustomOutflows", "set_continuous_outflows", << from, to, v >>, r, r.self)

SpecOut == InitFn /\ [][NextOut]_vars

\* C21: constructing glmpy.json.JSONToNML with a json_file that is not a
\* string raises TypeError.
C21_NonStringJsonFileRaises ==
  (last.op = "glmpy.json.JSONToNML" /\ last.args[1].t # "str") =>
    last.exc = "TypeError"

\* the base length and width SimpleTruncatedPyramidWaterBody computes from
\* the arguments of the call recorded in last
C22_Base(dim) ==
  float_op("-", float(last.args[dim]),
           float_op("*", float_op("/", float(last.args[1]), float(last.args[4])), Q(2, 1)))

\* C22: a construction whose computed base length or width is not positive
\* raises ValueError; every constructed object has base_length and
\* base_width; get_volumes, get_surface_areas and get_heights never raise.
C22_NonPositiveBaseRaises ==
  /\ ( /\ last.op = "SimpleTruncatedPyramidWaterBody"
       /\ \A v \in { last.args[i] : i \in 1..4 } : float_ok(v)
       /\ float(last.args[4]).n # 0
       /\ \E dim \in { 2, 3 } : ~float_gt(C22_Base(dim), Q(0, 1)) )
     => last.exc = "ValueError"
  /\ (last.op = "SimpleTruncatedPyramidWaterBody" /\ last.exc = "none")
     => { "base_length", "base_width" } \subseteq DOMAIN attrs
  /\ last.op \in { "get_volumes", "get_surface_areas", "get_heights" }
     => last.exc = "none"

C23_NeitherReached ==
  /\ last.op = "CatchmentRunoffInflows"
  /\ last.at = "Either runoff_coef or runoff_threshold must be provided."

C23_OneReached ==
  /\ last.op = "CatchmentRunoffInflows" /\ last.exc = "none"
  /\ last.args[4] = None
  /\ Len(attrs.catchment_inflows.rows) = 2

\* C24: with string arguments, CustomOutflows construction succeeds exactly
\* when each of start_datetime and end_datetime is in one of the two formats,
\* independently of the other, and start is earlier than end; otherwise it
\* raises ValueError.
C24_ConstructionByFormatAndOrder ==
  LET a == last.args
      formatted(x) == x.fmt \in { "%Y-%m-%d %H:%M:%S", "%Y-%m-%d" }
  IN ( /\ last.op = "CustomOutflows"
       /\ a[1].t = "str" /\ a[2].t = "str"
       /\ a[3] \in { "daily", "hourly" }
       /\ float_ok(a[4]) /\ ~float_gt(Q(0, 1), float(a[4])) )
     => IF formatted(a[1]) /\ formatted(a[2]) /\ a[1].h < a[2].h
        THEN last.exc = "none"
        ELSE last.exc = "ValueError"

\* the items of a dict that name the time t, in the order of the dict
C25_Covering(d, t) == SelectSeq(d, LAMBDA it : it.key.h = t)

\* C25: a new CustomOutflows has base_outflow/num_seconds at every timestamp
\* of its grid, and a successful set_discrete_outflows or
\* set_continuous_outflows leaves the timestamps and the columns as they
\* were and changes the flow exactly at the timestamps it covers (a key equal
\* to the timestamp, or from_datetime <= t <= to_datetime), to
\* value/num_seconds.
C25_FlowsFollowCalls ==
  /\ [](( /\ last.op = "CustomOutflows" /\ last.exc = "none" ) =>
         LET df == attrs.custom_outflows
         IN /\ df.columns = << "time", "flow" >> /\ df.index = ""
            /\ \A i \in 1..Len(df.rows) :
                 df.rows[i].flow = float_op("/", float(attrs.base_outflow),
                                            Q(attrs.num_seconds, 1)))
  /\ [][( /\ last'.op \in { "set_discrete_outflows", "set_continuous_outflows" }
          /\ last'.exc = "none" ) =>
         LET old == attrs.custom_outflows.rows
             new == attrs'.custom_outflows.rows
             a == last'.args
             flow(v) == float_op("/", float(v), Q(attrs.num_seconds, 1))
         IN /\ attrs'.custom_outflows.columns = << "time", "flow" >>
            /\ attrs'.custom_outflows.index = ""
            /\ Len(new) = Len(old)
            /\ \A i \in 1..Len(old) :
                 /\ new[i].time = old[i].time
                 /\ new[i].flow =
                      IF last'.op = "set_continuous_outflows"
                      THEN IF a[1].h <= old[i].time /\ old[i].time <= a[2].h
                           THEN flow(a[3]) ELSE old[i].flow
                      ELSE LET c == C25_Covering(a[1].d, old[i].time)
                           IN IF c = << >> THEN old[i].flow ELSE flow(c[Len(c)].value)]_vars

\* C25 witness: a discrete call that set the first day to 0.5 and the second
\* to 10, after a continuous call had set both days to 0
C25_Witness ==
  /\ last.op = "set_discrete_outflows" /\ last.exc = "none"
  /\ "continuous_outflow" \in DOMAIN attrs
  /\ attrs.continuous_outflow = IntV(0)
  /\ attrs.frequency = "daily"
  /\ attrs.custom_outflows.rows[1].flow = Q(1, 172800)
  /\ attrs.custom_outflows.rows[2].flow = Q(1, 8640)

\* C25: a continuous call that covered one day only, after a discrete call
C25_ContinuousReached ==
  /\ last.op = "set_continuous_outflows" /\ last.exc = "none"
  /\ "outflows_dict" \in DOMAIN attrs
  /\ attrs.frequency = "daily"
  /\ attrs.custom_outflows.rows[1].flow # attrs.custom_outflows.rows[2].flow

\* C26: a set_discrete_outflows or set_continuous_outflows call that raises
\* ValueError leaves the outflow timeseries exactly as it was before the call.
C26_FailedSetLeavesTimeseries ==
  [][( /\ last'.op \in { "set_discrete_outflows", "set_continuous_outflows" }
       /\ last'.exc = "ValueError" ) =>
      attrs'.custom_outflows = attrs.custom_outflows]_vars

\* C26 witness: a dict whose first item is valid and whose second item has a
\* value that is not positive was rejected, after an earlier call had
\* changed the timeseries
C26_Witness ==
  /\ last.op = "set_discrete_outflows" /\ last.exc = "ValueError"
  /\ last.args[1].t = "dict"
  /\ Len(last.args[1].d) = 2
  /\ last.args[1].d[1].value = FloatV(5)
  /\ last.args[1].d[2].value = IntV(-1)
  /\ "continuous_outflow" \in DOMAIN attrs
  /\ attrs.custom_outflows.rows[1].flow = Q(0, 1)

\* C26: a rejected set_continuous_outflows call
C26_ContinuousRejected ==
  /\ last.op = "set_continuous_outflows" /\ last.exc = "ValueError"
  /\ "outflows_dict" \in DOMAIN attrs

\* C27 as stated: str(block) never contains an empty line, that is two
\* consecutive newlines, in any state of any block; a block whose declared
\* parameters are all absent renders as its header line immediately followed
\* by the "/" line.
C27_NoEmptyLine ==
  LET r == block_str(cls, attrs)
  IN r.exc = "none" =>
       \A i \in 1..(Len(r.val.s) - 1) : ~(r.val.s[i] = "\n" /\ r.val.s[i + 1] = "\n")

----------------------------------------------------------------------------
\* set_attributes with names the block does not declare

\* one set_attributes call on a fresh block, the mapping holding one name the
\* class does not declare, alone or next to a declared parameter on either
\* side of it, and str(block) at any time
NextKey ==
  \* names the block's class does not declare: one that names nothing of
  \* the class, and the names of the two static helpers of NMLBase
  LET UndeclaredNames == { Undeclared, "fortran_bool_string", "comma_sep_list" } IN
  \/ /\ last.op = "__init__"
     /\ \E u \in UndeclaredNames :
          \/ SetAttributes(<< [key |-> u, value |-> IntV(500)] >>)
          \/ \E k \in keys : \E v \in TypedSamples(KeyType(cls, k)) :
               \/ SetAttributes(<< [key |-> k, value |-> v], [key |-> u, value |-> IntV(500)] >>)
               \/ SetAttributes(<< [key |-> u, value |-> IntV(500)], [key |-> k, value |-> v] >>)
  \/ StrBlock

SpecKey == InitStr /\ [][NextKey]_vars

\* C28 as stated: an attribute set through set_attributes under a name that
\* is not a declared parameter of the block never appears in str(block) and
\* changes no line of it: the text is the one str(block) gives when the
\* mapping is passed without that key.
C28_UndeclaredKeyInvisible ==
  [][last'.op = "set_attributes" =>
       block_str(cls, attrs') =
         block_str(cls, set_attributes(attrs,
                          SelectSeq(last'.base, LAMBDA item : item.key \in Declared(cls))))]_vars

----------------------------------------------------------------------------
\* glmpy.simulation.  A path is the sequence of its components and a
\* component is a name, held as its stem and its extension; disk maps every
\* path that exists to a directory or to a file and its data.

\* the file or directory name stem + ext, as "glm3" + ".nml"
Name(stem, ext) == [stem |-> stem, ext |-> ext]

\* GlmSim.__init__
GlmSim_init(input_files, api, inputs_dir) ==
  Returned([input_files |-> input_files, fast_api |-> api, inputs_dir |-> inputs_dir])

\* GlmSim.prepare_inputs on the disk d: what the call returns or raises, and
\* the disk when it ends
prepare_inputs(self, d) ==
  LET inputs_dir == self.inputs_dir
      bcs == Append(inputs_dir, Name("bcs", ""))
      under(p, q) == Len(q) >= Len(p) /\ SubSeq(q, 1, Len(p)) = p
      put(fs, p, entry) == [q \in DOMAIN fs \cup {p} |-> IF q = p THEN entry ELSE fs[q]]
      \* os.path.isdir(p)
      isdir(fs, p) == p \in DOMAIN fs /\ fs[p].kind = "dir"
      \* shutil.rmtree(p)
      rmtree(fs, p) == [q \in { q \in DOMAIN fs : ~under(p, q) } |-> fs[q]]
      \* os.mkdir(p)
      mkdir(fs, p) ==
        IF p \in DOMAIN fs THEN Raised("FileExistsError") @@ [disk |-> fs]
        ELSE IF Len(p) > 1 /\ ~isdir(fs, SubSeq(p, 1, Len(p) - 1))
        THEN Raised("FileNotFoundError") @@ [disk |-> fs]
        ELSE Returned(None) @@ [disk |-> put(fs, p, [kind |-> "dir"])]
      \* with open(p, "wb") as f_tmp: f_tmp.write(data)
      write(fs, p, data) == put(fs, p, [kind |-> "file", data |-> data])
      RECURSIVE loop(_, _)
      \* for f in self.input_files:
      loop(fs, files) ==
        IF files = << >> THEN Returned(inputs_dir) @@ [disk |-> fs]
        ELSE LET f == Head(files)
             IN IF f.filename = Name("glm3", ".nml")
                THEN loop(write(fs, Append(inputs_dir, f.filename), f.file), Tail(files))
                ELSE LET made == mkdir(fs, bcs)
                     IN IF made.exc # "none" THEN made
                        ELSE loop(write(made.disk, Append(bcs, f.filename), f.file),
                                  Tail(files))
  IN
  IF ~self.fast_api THEN Returned(inputs_dir) @@ [disk |-> d]
  ELSE LET cleared == IF isdir(d, inputs_dir) THEN rmtree(d, inputs_dir) ELSE d
           made == mkdir(cleared, inputs_dir)
       IN IF made.exc # "none" THEN made ELSE loop(made.disk, self.input_files)

\* GlmPostProcessor.__init__
GlmPostProcessor_init(outputs_path) == Returned([outputs_path |-> outputs_path])

\* GlmPostProcessor.csv_to_json_files on the disk d, where outputs is the
\* list os.listdir(self.outputs_path) returns, in the order it returns it.
\* A CSV file's data is its table, [columns, values], the values column by
\* column; a JSON file's data is the dict dumped into it, its items in
\* insertion order.
csv_to_json_files(self, d, outputs) ==
  LET path == self.outputs_path
      \* if i.endswith(".csv"): csvs.append(os.path.join(self.outputs_path, i))
      csvs == SelectSeq(outputs, LAMBDA i : i.ext = ".csv")
      \* tmp_dict[key] = value
      setitem(dict, key, value) ==
        IF \E k \in 1..Len(dict) : dict[k].key = key
        THEN [k \in 1..Len(dict) |->
                IF dict[k].key = key THEN [key |-> key, value |-> value] ELSE dict[k]]
        ELSE Append(dict, [key |-> key, value |-> value])
      RECURSIVE update(_, _, _)
      \* for c in cols: tmp_dict[c] = df.loc[:, c].tolist()
      update(dict, df, k) ==
        IF k > Len(df.columns) THEN dict
        ELSE update(setitem(dict, df.columns[k], df.values[k]), df, k + 1)
      RECURSIVE loop(_, _, _)
      \* for i in csvs: the one tmp_dict, made before the loop, is carried
      \* from each file to the next.  prefix is the path up to its first
      \* ".csv", here the path without its extension.
      loop(fs, tmp_dict, todo) ==
        IF todo = << >> THEN Returned(None) @@ [disk |-> fs]
        ELSE LET i == Head(todo)
                 json_path == Append(path, Name(i.stem, ".json"))
                 df == fs[Append(path, i)].data
                 dumped == update(tmp_dict, df, 1)
             IN loop([q \in DOMAIN fs \cup {json_path} |->
                        IF q = json_path
                        THEN [kind |-> "file", data |-> [t |-> "dict", d |-> dumped]]
                        ELSE fs[q]],
                     dumped, Tail(todo))
  IN
  IF path \notin DOMAIN d THEN Raised("FileNotFoundError") @@ [disk |-> d]
  ELSE IF d[path].kind # "dir" THEN Raised("NotADirectoryError") @@ [disk |-> d]
  ELSE loop(d, << >>, csvs)

\* the most files one upload holds
MaxFiles == 2

\* the process before glmpy.simulation is used, on one of a few disks
InitSim ==
  LET inputs == << Name("inputs", "") >>
      outputs == << Name("outputs", "") >>
      dir == [kind |-> "dir"]
      bytes(id) == [kind |-> "file", data |-> [t |-> "bytes", id |-> id]]
      csv(columns) ==
        [kind |-> "file",
         data |-> [t |-> "csv", columns |-> columns,
                   values |-> [k \in 1..Len(columns) |-> << columns[k], k >>]]]
      lake == Append(outputs, Name("lake", ".csv"))
      wq == Append(outputs, Name("wq", ".csv"))
      overflow == Append(outputs, Name("overflow", ".csv"))
      nc == Append(outputs, Name("output", ".nc"))
      Disks ==
        { << >>,
          (inputs :> dir) @@ (Append(inputs, Name("glm3", ".nml")) :> bytes("old"))
            @@ (Append(inputs, Name("bcs", "")) :> dir)
            @@ (inputs \o << Name("bcs", ""), Name("old", ".csv") >> :> bytes("old")),
          (outputs :> dir),
          (outputs :> dir) @@ (lake :> csv(<< "time", "temp" >>)),
          (outputs :> dir) @@ (lake :> csv(<< "time", "temp" >>)) @@ (nc :> bytes("nc")),
          (outputs :> dir) @@ (lake :> csv(<< "time", "temp" >>))
            @@ (wq :> csv(<< "time", "oxy" >>)),
          (outputs :> dir) @@ (lake :> csv(<< "time", "temp" >>))
            @@ (overflow :> csv(<< "time", "temp" >>)) }
  IN
  /\ cls = "NMLBase"
  /\ keys = {}
  /\ attrs = << >>
  /\ everSet = {}
  /\ doc = NoDoc
  /\ supplied = << >>
  /\ file = NoFile
  /\ handles = 0
  /\ disk \in Disks
  /\ last = Outcome("import", "none", "")

\* GlmSim(files, api, inputs_dir) and prepare_inputs(), or
\* GlmPostProcessor(outputs_path) and csv_to_json_files()
NextSim ==
  LET Uploads == { [filename |-> Name("glm3", ".nml"), file |-> [t |-> "bytes", id |-> "nml"]],
                   [filename |-> Name("met", ".csv"), file |-> [t |-> "bytes", id |-> "met"]],
                   [filename |-> Name("inflow", ".csv"), file |-> [t |-> "bytes", id |-> "inflow"]] }
      Files == UNION { [1..n -> Uploads] : n \in 0..MaxFiles }
      \* the names in the directory p
      listed(p) == { q[Len(q)] : q \in { q \in DOMAIN disk :
                                           Len(q) = Len(p) + 1 /\ SubSeq(q, 1, Len(p)) = p } }
      \* the orders os.listdir may return them in
      Orders(S) == { s \in [1..Cardinality(S) -> S] :
                       \A i, j \in 1..Cardinality(S) : s[i] = s[j] => i = j }
  IN
  \/ /\ last.op = "import"
     /\ \E input_files \in Files : \E api \in BOOLEAN :
          Construct("GlmSim", << input_files, api, << Name("inputs", "") >> >>,
                    GlmSim_init(input_files, api, << Name("inputs", "") >>))
  \/ /\ last.op = "import"
     /\ Construct("GlmPostProcessor", << << Name("outputs", "") >> >>,
                  GlmPostProcessor_init(<< Name("outputs", "") >>))
  \/ /\ cls = "GlmSim"
     /\ LET r == prepare_inputs(attrs, disk)
        IN /\ disk' = r.disk
           /\ last' = [Outcome("prepare_inputs", r.exc, "") EXCEPT !.val = r.val]
     /\ UNCHANGED << cls, keys, attrs, everSet, doc, supplied, file, handles >>
  \/ /\ cls = "GlmPostProcessor"
     /\ \E outputs \in Orders(listed(attrs.outputs_path)) :
          LET r == csv_to_json_files(attrs, disk, outputs)
          IN /\ disk' = r.disk
             /\ last' = [Outcome("csv_to_json_files", r.exc, "") EXCEPT !.args = << outputs >>]
     /\ UNCHANGED << cls, keys, attrs, everSet, doc, supplied, file, handles >>

SpecSim == InitSim /\ [][NextSim]_vars

\* C29 as stated: with api=True, prepare_inputs completes without error for
\* any list of uploaded files, and afterwards inputs_dir holds glm3.nml, if a
\* file of that name was uploaded, inputs_dir/bcs/<filename> for every other
\* uploaded file, and nothing it held before the call.
C29_PrepareInputsAnyFiles ==
  (last.op = "prepare_inputs" /\ attrs.fast_api) =>
    LET inputs_dir == attrs.inputs_dir
        files == attrs.input_files
        bcs == Append(inputs_dir, Name("bcs", ""))
        nml == { k \in 1..Len(files) : files[k].filename = Name("glm3", ".nml") }
        other == (1..Len(files)) \ nml
        expected == {inputs_dir}
                      \cup { Append(inputs_dir, files[k].filename) : k \in nml }
                      \cup (IF other = {} THEN {} ELSE {bcs})
                      \cup { Append(bcs, files[k].filename) : k \in other }
    IN /\ last.exc = "none"
       /\ { q \in DOMAIN disk : SubSeq(q, 1, Len(inputs_dir)) = inputs_dir } = expected
       /\ \A k \in 1..Len(files) :
            LET p == IF k \in nml THEN Append(inputs_dir, files[k].filename)
                     ELSE Append(bcs, files[k].filename)
            IN disk[p].kind = "file" /\ disk[p].data.id # "old"

\* C30 as stated: csv_to_json_files writes, for each CSV file in
\* outputs_path, a JSON file next to it whose keys are exactly the column
\* names of that CSV and whose values are that CSV's column values; no JSON
\* file holds a key that comes only from another CSV.
C30_JsonKeysAreOwnColumns ==
  (last.op = "csv_to_json_files" /\ last.exc = "none") =>
    \A p \in DOMAIN disk :
      (Len(p) = Len(attrs.outputs_path) + 1 /\ p[Len(p)].ext = ".csv") =>
        LET json_path == Append(attrs.outputs_path, Name(p[Len(p)].stem, ".json"))
            df == disk[p].data
        IN /\ json_path \in DOMAIN disk
           /\ LET dict == disk[json_path].data.d
              IN /\ { dict[k].key : k \in 1..Len(dict) } =
                      { df.columns[k] : k \in 1..Len(df.columns) }
                 /\ \A k \in 1..Len(dict) : \A c \in 1..Len(df.columns) :
                      dict[k].key = df.columns[c] => dict[k].value = df.values[c]
====
